---- MODULE Spec2Model ----
(***************************************************************************)
(* Model of the networking core of the node (src/node/node.js): the Node   *)
(* class with its bootstrap, connection acceptance, message dispatch and   *)
(* the version/verack handshake, address gossip and transaction intake.    *)
(*                                                                         *)
(* Peer, PeerManager, Transport, Mempool and Storage are collaborators     *)
(* whose code is not part of src/; their operations are modelled from the  *)
(* specification's description of them.                                    *)
(*                                                                         *)
(* Spec is one node (Us) facing an arbitrary environment: a remote       *)
(* address connects, also again after its connection is gone, and sends    *)
(* any message in any order; sends may fail; bootstrap() is called, also   *)
(* twice.  SpecHandshake is two nodes running the same code over reliable  *)
(* FIFO connections, with fair scheduling.  The other specifications put   *)
(* the same node into one situation each: repeated connections,            *)
(* transactions, gossip, bootstrap, DNS seeds, a ban, and the witness with *)
(* its codec.                                                              *)
(***************************************************************************)
EXTENDS Integers, Sequences, FiniteSets, TLC

(* ------------------------------------------------------------------ *)
(* Program constants                                                   *)
(* ------------------------------------------------------------------ *)

protocolVersion == 291

ADDR_MAX_LENGTH == 1000

BAN_PEER_SCORE == 100

MEMPOOL_TX_QTY == 500

(* ------------------------------------------------------------------ *)
(* Bounds of the model                                                 *)
(* ------------------------------------------------------------------ *)

\* A peer whose misbehaviour score has reached MaxScore receives no more messages.
MaxScore == 2

\* A handler runs only when the send queues it appends to hold fewer than MaxQueue messages.
MaxQueue == 1

\* A message is dispatched only while fewer than MaxSuspended handlers are suspended.
MaxSuspended == 2

\* bootstrap() is called at most MaxBootstraps times.
MaxBootstraps == 2

\* A connection arrives only while fewer than MaxRefused connections have been refused.
MaxRefused == 2

(* ------------------------------------------------------------------ *)
(* The world                                                           *)
(* ------------------------------------------------------------------ *)

\* The nodes that run the code; a node's address is its number.
Nodes == {1, 2}

\* The node under test in Spec, and the node that dials in SpecHandshake: the first one.
Us == CHOOSE n \in Nodes : \A m \in Nodes : n <= m

\* The node that is dialed in SpecHandshake.
Them == CHOOSE n \in Nodes : n # Us

\* The remote addresses.  Address 2, which is also the seed Us dials, is an
\* arbitrary peer: it connects at any time and sends any message in any order.
\* Address 3 is a well-behaved peer: it connects once and sends its version, then
\* its verack.
RemoteAddrs == {2, 3}

ArbitraryAddrs == {2}

HonestAddrs == {3}

NODE == "NODE"

\* Constants.WITNESS (WITNESS is a reserved word of TLA+)
WITNESS_SVC == "WITNESS"

REJECT_DUPLICATE == "REJECT_DUPLICATE"

\* PeerInfo: address and advertised capabilities (the service kinds).
PeerInfo(address, caps) == [address |-> address, caps |-> caps]

\* The transactions the environment sends, by number; the sender of a
\* transaction is the address Crypto.address derives from its public key.
Txs == {1, 2}

TxSender(tx) == 100 + tx

\* The accounts Storage knows.
Accounts == {101}

VARIABLES
    nonce,      \* nonce[n]: this._nonce of the node n, once n is constructed
    peers,      \* peers[n]: the address book of n's PeerManager, address -> Peer
    tasks,      \* tasks[n]: the handlers of n suspended at an await, a bag
    mempool,    \* mempool[n]: the transactions admitted at n (Node adds none)
    bookOrder,  \* bookOrder[n]: the keys of the address book in insertion order
    dup,        \* dup[n]: the Peer objects n holds outside its book, oldest first
    boot,       \* boot[n]: this._arrSeedAddresses and the calls of n's bootstrap()
    wit         \* the witness: the block, the join transaction or the message it works on

vars == <<nonce, peers, tasks, mempool, bookOrder, dup, boot, wit>>

(* ------------------------------------------------------------------ *)
(* Messages                                                            *)
(* ------------------------------------------------------------------ *)

MsgVersion(n, pv, info) ==
    [type |-> "version", nonce |-> n, protocolVersion |-> pv, peerInfo |-> info]

MsgVerAck == [type |-> "verack"]

MsgGetAddr == [type |-> "getaddr"]

MsgAddr(arrPeers) == [type |-> "addr", count |-> Len(arrPeers), peers |-> arrPeers]

MsgReject(code, reason) == [type |-> "reject", code |-> code, reason |-> reason]

MsgTx(tx) == [type |-> "tx", tx |-> tx]

MsgInv(tx) == [type |-> "inv", tx |-> tx]

MsgPing == [type |-> "ping"]

(* ------------------------------------------------------------------ *)
(* Peer                                                                *)
(* ------------------------------------------------------------------ *)

\* A Peer built from an accepted connection: inbound, its peerInfo not yet learned.
PeerFromConnection(a) ==
    [address |-> a, connected |-> TRUE, inbound |-> TRUE, version |-> 0,
     fullyConnected |-> FALSE, score |-> 0, banned |-> FALSE, loadDone |-> FALSE,
     peerInfo |-> {}, sent |-> <<>>]

\* A Peer built from a PeerInfo: outbound, not yet connected.
PeerFromInfo(info) ==
    [address |-> info.address, connected |-> FALSE, inbound |-> FALSE, version |-> 0,
     fullyConnected |-> FALSE, score |-> 0, banned |-> FALSE, loadDone |-> FALSE,
     peerInfo |-> {info}, sent |-> <<>>]

\* peer.ban()
Ban(p) == [p EXCEPT !.banned = TRUE, !.connected = FALSE]

\* peer.misbehave(points)
Misbehave(p, points) ==
    LET q == [p EXCEPT !.score = @ + points]
    IN  IF q.score >= BAN_PEER_SCORE THEN Ban(q) ELSE q

\* peer.disconnect()
Disconnect(p) == [p EXCEPT !.connected = FALSE]

\* peer.pushMessage(m), when the send succeeds
PushMessage(p, m) == [p EXCEPT !.sent = Append(@, m)]

(* ------------------------------------------------------------------ *)
(* PeerManager                                                         *)
(* ------------------------------------------------------------------ *)

\* The record addPeer(peerInfo) stores for the address: a new Peer when the key is
\* absent, else the existing one with the capabilities merged.
MergedPeer(book, a, caps) ==
    IF a \in DOMAIN book
    THEN [book[a] EXCEPT !.peerInfo = {PeerInfo(a, caps \cup UNION {i.caps : i \in @})}]
    ELSE PeerFromInfo(PeerInfo(a, caps))

\* addPeer(peerInfo) for every entry of the array, first to last: the book afterwards.
\* Merging is a union, so the outcome for an address is the existing record (or a new
\* one) with the capabilities of all its entries.
AddPeerInfos(book, arrInfo) ==
    LET withCaps == {i \in DOMAIN arrInfo : arrInfo[i].caps # {}}
        capsOf(a) == UNION {arrInfo[i].caps : i \in {j \in withCaps : arrInfo[j].address = a}}
        addrs == {arrInfo[i].address : i \in DOMAIN arrInfo}
    IN  [a \in DOMAIN book \cup addrs |->
            IF a \in addrs THEN MergedPeer(book, a, capsOf(a)) ELSE book[a]]

\* The keys of the book in insertion order after the same calls: the addresses
\* not yet known are appended in the order of their first entry.
AddPeerOrder(book, order, arrInfo) ==
    LET addrs == {arrInfo[i].address : i \in DOMAIN arrInfo}
        distinct == Cardinality(addrs) = Len(arrInfo)
        first(i) == /\ arrInfo[i].address \notin DOMAIN book
                    /\ distinct \/ \A j \in 1..(i - 1) : arrInfo[j].address # arrInfo[i].address
        idx == SelectSeq([i \in DOMAIN arrInfo |-> i], first)
    IN  order \o [k \in DOMAIN idx |-> arrInfo[idx[k]].address]

\* Whether the peer advertises the service.
HasService(p, service) == \E i \in p.peerInfo : service \in i.caps

\* filterPeers({service}): the addresses of the peers advertising the service, in book
\* order; filterPeers(): every peer ("" stands for no predicate).
FilterPeers(book, order, service) ==
    SelectSeq(order, LAMBDA a : service = "" \/ HasService(book[a], service))

(* ------------------------------------------------------------------ *)
(* Configuration and collaborators                                     *)
(* ------------------------------------------------------------------ *)

\* Transport.strToAddress
StrToAddress(str) ==
    CASE str = "10.0.0.2" -> 2
      [] str = "10.0.0.3" -> 3
      [] str = "10.0.0.4" -> 4
      [] str = "10.0.0.5" -> 5

\* options.arrSeedAddresses of each node
ArrSeedAddresses(n) == IF n = Us THEN <<"10.0.0.2">> ELSE <<"10.0.0.3">>

\* options.arrDnsSeeds of each node; <<>> where the option is not given
ArrDnsSeeds(n) == IF n = Us THEN <<>> ELSE <<"seed-a.example", "seed-b.example">>

\* Transport.resolveName, when the name resolves: the addresses of the name
ResolveName(name) ==
    IF name = "seed-a.example" THEN <<"10.0.0.4">> ELSE <<"10.0.0.5", "10.0.0.3">>

\* Constants.MAX_PEERS
MAX_PEERS == 10

\* this._nMaxPeers = nMaxPeers || Constants.MAX_PEERS, with no nMaxPeers in the options
NMaxPeers(n) == MAX_PEERS

\* this._myPeerInfo
MyPeerInfo(n) == PeerInfo(n, {NODE})

\* What a lookup of addr in Storage resolves to: the account, or undefined
StoredAccount(addr) ==
    IF addr \in Accounts THEN [kind |-> "account", address |-> addr]
    ELSE [kind |-> "undefined"]

\* this._storage.getAccount(addr): a storage query is I/O, so the call returns a
\* promise of the lookup's result.
GetAccount(addr) == [kind |-> "promise", value |-> StoredAccount(addr)]

\* The truthiness of a value: undefined is falsy, an object (a promise too) is truthy.
Truthy(v) == v.kind # "undefined"

(* ------------------------------------------------------------------ *)
(* Suspended handlers                                                  *)
(* ------------------------------------------------------------------ *)
\* A handler that reaches an await returns to the event loop and runs on later;
\* other handlers run in between.  tasks[n] holds what is left to run of each
\* suspended handler, as a bag: a function from the continuation to the number
\* of handlers suspended there.

NoTasks == [t \in {} |-> 0]

\* One more handler is suspended at t.
Suspend(bag, t) ==
    IF t \in DOMAIN bag THEN [bag EXCEPT ![t] = @ + 1] ELSE bag @@ (t :> 1)

\* One of the handlers suspended at t has run on.
Finish(bag, t) ==
    IF bag[t] > 1 THEN [bag EXCEPT ![t] = @ - 1] ELSE [u \in DOMAIN bag \ {t} |-> bag[u]]

\* The number of handlers of the bag suspended at a continuation of the set
RECURSIVE Copies(_, _)
Copies(bag, set) ==
    IF set = {} THEN 0
    ELSE LET t == CHOOSE u \in set : TRUE
         IN  bag[t] + Copies(bag, set \ {t})

\* A handler names the Peer object it was called with: by its address while the
\* object is in the book; by its place among the held objects, negated, once it
\* has left the book and a call of bootstrap() still has it; and as Detached
\* when nothing but handlers has it, so that what they do to it leaves no trace.
Detached == 0

\* _handleVersionMessage of the inbound peer a at the await of the push of the
\* own version (node.js:277): the verack is still to be pushed.
VerackTask(a) == [peer |-> a, kind |-> "verack"]

\* A handler of peer a's message at an await whose promise rejects with the
\* error: the catch of _incomingMessage is still to run.
CatchTask(a, error) == [peer |-> a, kind |-> "catch", error |-> error]

\* _handleTx of peer a's transaction at await this._checkTx(tx) (node.js:233):
\* line 234 is still to run.
TxTask(a, tx) == [peer |-> a, kind |-> "tx", tx |-> tx]

\* The continuation t once the Peer object of address a has left the book and
\* is named x.
DetachTask(t, a, x) == IF t.peer = a THEN [t EXCEPT !.peer = x] ELSE t

\* The bag once the Peer object of address a has left the book and is named x.
DetachTasks(bag, a, x) ==
    [u \in {DetachTask(t, a, x) : t \in DOMAIN bag} |->
        Copies(bag, {t \in DOMAIN bag : DetachTask(t, a, x) = u})]

\* The handlers of the bag that are suspended
Suspended(bag) == Copies(bag, DOMAIN bag)

(* ------------------------------------------------------------------ *)
(* Node: the handlers                                                  *)
(* ------------------------------------------------------------------ *)

\* The part of the state a handler of node n works on.
Local(n) ==
    [peers |-> peers[n], order |-> bookOrder[n], tasks |-> tasks[n], mempool |-> mempool[n],
     held |-> boot[n].held]

\* The Peer object named x, in the local state r
Object(r, x) == IF x > 0 THEN r.peers[x] ELSE r.held[0 - x]

\* The local state r once the Peer object named x is as p.
WithObject(r, x, p) ==
    IF x > 0 THEN [r EXCEPT !.peers[x] = p]
    ELSE IF x < 0 THEN [r EXCEPT !.held[0 - x] = p]
    ELSE r

\* The local state with the record of peer a replaced.
WithPeer(n, a, p) == [Local(n) EXCEPT !.peers[a] = p]

\* _createMsgVersion
CreateMsgVersion(n) == MsgVersion(nonce[n], protocolVersion, MyPeerInfo(n))

\* A catch block that forgives: the peer's score is reset instead of raised.
CatchForgiving(p) == [p EXCEPT !.score = 0]

\* The catch block of _incomingMessage
Catch(p) == Misbehave(p, 1)

\* The catch block of _incomingMessage runs for the Peer object named a.
Charge(r, a) == IF a = Detached THEN r ELSE WithObject(r, a, Catch(Object(r, a)))

\* await peer.pushMessage(m) as the last statement of a handler: the message is
\* queued, or the send fails, which the handler learns when the promise it awaits
\* rejects: its catch runs later.
PushOrCatch(n, a, p, m, ok) ==
    IF ok THEN WithPeer(n, a, PushMessage(p, m))
    ELSE [WithPeer(n, a, p) EXCEPT !.tasks = Suspend(@, CatchTask(a, "send"))]

\* The awaited promise of the suspended handler t has rejected: the catch of
\* _incomingMessage runs, whatever has become of the peer in between.
CatchRuns(n, t) == [Charge(Local(n), t.peer) EXCEPT !.tasks = Finish(@, t)]

\* A node that does not compare the nonce of a version message with its own.
IsSelfNonceUnchecked(n, m) == FALSE

\* message.nonce === this._nonce
IsSelfNonce(n, m) == m.nonce = nonce[n]

\* A node that accepts every protocolVersion.
IsCompatibleAlways(m) == TRUE

\* message.protocolVersion >= Constants.protocolVersion
IsCompatible(m) == m.protocolVersion >= protocolVersion

\* A node that takes every version message for the first one of its peer.
VersionUnsetAlways(p) == TRUE

\* !peer.version
VersionUnset(p) == p.version = 0

\* _handleVersionMessage, up to its first await
HandleVersionMessage(n, a, m, ok) ==
    LET p == peers[n][a]
        p1 == [p EXCEPT !.version = m.protocolVersion]
        p2 == [p1 EXCEPT !.peerInfo = {m.peerInfo}]
        replied == PushOrCatch(n, a, p2, CreateMsgVersion(n), ok)
    IN  IF IsSelfNonce(n, m) THEN WithPeer(n, a, Ban(p))
        ELSE IF IsCompatible(m)
        THEN IF VersionUnset(p)
             THEN IF p1.inbound
                  THEN IF ok
                       THEN [replied EXCEPT !.tasks = Suspend(@, VerackTask(a))]
                       ELSE replied
                  ELSE PushOrCatch(n, a, p1, MsgVerAck, ok)
             ELSE WithPeer(n, a, Misbehave(p, 1))
        ELSE WithPeer(n, a, Disconnect(p))

\* A version handler that stops after the push of the own version.
ResumeVersionMessageSilent(n, a, ok) ==
    [Local(n) EXCEPT !.tasks = Finish(@, VerackTask(a))]

\* _handleVersionMessage of an inbound peer, after the push of the own version:
\* the verack is pushed on the Peer object the handler was called with (ok: the
\* send succeeds; otherwise the catch runs later).
ResumeVersionMessage(n, a, ok) ==
    LET r == [Local(n) EXCEPT !.tasks = Finish(@, VerackTask(a))]
    IN  IF ~ok THEN [r EXCEPT !.tasks = Suspend(@, CatchTask(a, "send"))]
        ELSE IF a = Detached THEN r
        ELSE WithObject(r, a, PushMessage(Object(r, a), MsgVerAck))

\* A verack handler that does not look at the peer's version.
HandleVerackMessageUnchecked(n, a, ok) ==
    LET p1 == [peers[n][a] EXCEPT !.fullyConnected = TRUE]
    IN  IF ~p1.inbound
        THEN PushOrCatch(n, a, p1, MsgGetAddr, ok)
        ELSE WithPeer(n, a, p1)

\* _handleVerackMessage
HandleVerackMessage(n, a, ok) ==
    LET p == peers[n][a]
        p1 == [p EXCEPT !.fullyConnected = TRUE]
    IN  IF ~VersionUnset(p)
        THEN IF ~p1.inbound
             THEN PushOrCatch(n, a, p1, MsgGetAddr, ok)
             ELSE WithPeer(n, a, p1)
        ELSE Local(n)

\* this._peerManager.filterPeers().map(peer => peer.peerInfo.data)
ArrPeers(n) ==
    [i \in DOMAIN bookOrder[n] |-> CHOOSE info \in peers[n][bookOrder[n][i]].peerInfo : TRUE]

\* _handlePeerRequest: reading peerInfo.data of a peer whose peerInfo is not yet
\* known throws inside the async handler, so that the promise _incomingMessage
\* awaits rejects.
HandlePeerRequest(n, a, ok) ==
    IF \E b \in DOMAIN peers[n] : peers[n][b].peerInfo = {}
    THEN [Local(n) EXCEPT !.tasks = Suspend(@, CatchTask(a, "peerInfo"))]
    ELSE PushOrCatch(n, a, peers[n][a], MsgAddr(ArrPeers(n)), ok)

\* A _handlePeerList that replaces the record of every address of the list.
HandlePeerListReplacing(n, a, m) ==
    LET fresh == {m.peers[i].address : i \in DOMAIN m.peers}
        info(b) == m.peers[CHOOSE i \in DOMAIN m.peers : m.peers[i].address = b]
        book == [b \in DOMAIN peers[n] \cup fresh |->
                    IF b \in fresh THEN PeerFromInfo(info(b)) ELSE peers[n][b]]
    IN  [Local(n) EXCEPT
            !.peers = [book EXCEPT ![a].loadDone = TRUE],
            !.order = AddPeerOrder(peers[n], bookOrder[n], m.peers)]

\* A _handlePeerList that gives up at an entry whose address is already in the book.
HandlePeerListStrict(n, a, m) ==
    IF \E i \in DOMAIN m.peers : m.peers[i].address \in DOMAIN peers[n]
    THEN WithPeer(n, a, Catch(peers[n][a]))
    ELSE [Local(n) EXCEPT
            !.peers = [AddPeerInfos(peers[n], m.peers) EXCEPT ![a].loadDone = TRUE],
            !.order = AddPeerOrder(peers[n], bookOrder[n], m.peers)]

\* _handlePeerList
HandlePeerList(n, a, m) ==
    [Local(n) EXCEPT
        !.peers = [AddPeerInfos(peers[n], m.peers) EXCEPT ![a].loadDone = TRUE],
        !.order = AddPeerOrder(peers[n], bookOrder[n], m.peers)]

\* _checkTx: whether it returns (true) or throws (false). The result of getAccount
\* is tested as it is returned, without await.
CheckTx(tx) == Truthy(GetAccount(TxSender(tx)))

\* _handleTx, up to its first await (node.js:233): _checkTx has returned or
\* thrown, which the handler learns when it runs on.
HandleTx(n, a, m) ==
    [Local(n) EXCEPT !.tasks =
        Suspend(@, IF CheckTx(m.tx) THEN TxTask(a, m.tx) ELSE CatchTask(a, "account"))]

\* A handler that admits the transaction and charges nobody.
ResumeHandleTxAdmits(n, t) ==
    [Local(n) EXCEPT !.tasks = Finish(@, t), !.mempool = @ \cup {t.tx}]

\* _handleTx from await this._checkTx(tx) on (node.js:234).  The constructor
\* (13-48) assigns no this._mempool, so this._mempool.accept(tx) throws a
\* TypeError for every transaction: nothing is admitted, this._relayTx(tx) (235)
\* is not reached, and the catch of _incomingMessage charges the peer.
ResumeHandleTx(n, t) ==
    Charge([Local(n) EXCEPT !.tasks = Finish(@, t)], t.peer)

\* A node without the handshake gate.
NotFullyConnectedIgnored(p) == FALSE

\* !peer.fullyConnected
NotFullyConnected(p) == ~p.fullyConnected

\* A reject branch that charges the peer but leaves the latch alone.
RejectedPeerUnlatched(p) == Misbehave(p, 1)

\* _incomingMessage, the reject branch: peer.misbehave(1); peer.loadDone = true
RejectedPeer(p) == [Misbehave(p, 1) EXCEPT !.loadDone = TRUE]

\* _incomingMessage, up to the first await of the handler it calls; an error
\* thrown by _incomingMessage itself is caught at once.
IncomingMessage(n, a, m, ok) ==
    LET p == peers[n][a]
    IN  IF m.type = "reject"
        THEN WithPeer(n, a, RejectedPeer(p))
        ELSE IF m.type = "version" THEN HandleVersionMessage(n, a, m, ok)
        ELSE IF m.type = "verack" THEN HandleVerackMessage(n, a, ok)
        ELSE IF NotFullyConnected(p) THEN WithPeer(n, a, Misbehave(p, 1))
        ELSE IF m.type = "getaddr" THEN HandlePeerRequest(n, a, ok)
        ELSE IF m.type = "addr" THEN HandlePeerList(n, a, m)
        ELSE IF m.type = "tx" THEN HandleTx(n, a, m)
        ELSE WithPeer(n, a, Catch(p))

\* The local state r becomes the state of node n.
Becomes(n, r) ==
    /\ peers' = [peers EXCEPT ![n] = r.peers]
    /\ bookOrder' = [bookOrder EXCEPT ![n] = r.order]
    /\ tasks' = [tasks EXCEPT ![n] = r.tasks]
    /\ mempool' = [mempool EXCEPT ![n] = r.mempool]
    /\ boot' = [boot EXCEPT ![n].held = r.held]

(* ------------------------------------------------------------------ *)
(* Node: connections                                                   *)
(* ------------------------------------------------------------------ *)

\* addPeer(newPeer) returns undefined: the address is bound to a live peer.
AddPeerCollides(book, a) == a \in DOMAIN book /\ book[a].connected

\* addPeer(newPeer) refuses the new Peer: the address is bound to a live peer,
\* or to a banned one whose ban is in force.
AddPeerRefuses(book, a) == a \in DOMAIN book /\ (book[a].connected \/ book[a].banned)

\* addPeer(newPeer) stores the new Peer in place of the record of its address:
\* the record's connection is gone and its ban, if it had one, is over.
AddPeerReplaces(book, a) == a \in DOMAIN book /\ ~book[a].connected

\* addPeer(newPeer) for a live Peer whose address is not yet a key: the record is inserted.
AddPeerLive(book, a) ==
    [b \in DOMAIN book \cup {a} |-> IF b = a THEN PeerFromConnection(a) ELSE book[b]]

\* The MsgReject of _incomingConnection
DuplicateReject == MsgReject(REJECT_DUPLICATE, "Duplicate connection detected")

\* newPeer of a refused connection at the await of _incomingConnection: the reject is
\* queued on it and the handler waits for the send, or the send has failed, which
\* the catch logs.
RefusedPeer(a, ok) ==
    IF ok
    THEN [address |-> a, connected |-> TRUE, pc |-> "push", sent |-> <<DuplicateReject>>]
    ELSE [address |-> a, connected |-> TRUE, pc |-> "done", sent |-> <<>>]

\* A refusal that leaves the new connection open.
ClosedPeerLeftOpen(d) == [d EXCEPT !.pc = "done"]

\* newPeer.disconnect() at the end of _incomingConnection
ClosedPeer(d) == [d EXCEPT !.connected = FALSE, !.pc = "done"]

\* A call of bootstrap() that is in its loop over arrBestPeers
Running(call) == call.pc \in {"connect", "push", "wait"}

\* The name of the Peer object p once it has left the book: its place among the
\* held objects, negated, if a call of bootstrap() has it in its arrBestPeers.
HeldName(b, p) ==
    IF \E i \in DOMAIN b.calls :
            /\ Running(b.calls[i])
            /\ \E j \in DOMAIN b.calls[i].best : b.calls[i].best[j] = p.address
    THEN 0 - (Len(b.held) + 1)
    ELSE Detached

\* What is still read or written of a Peer object that has left the book: the
\* calls of bootstrap() read its connection and queue their MsgVersion, the
\* handlers suspended on it queue their replies and charge it.
HeldPeer(p) ==
    [address |-> p.address, connected |-> p.connected, banned |-> p.banned,
     score |-> p.score, sent |-> p.sent]

\* The Peer object p leaves the book.  A call of bootstrap() that has it in its
\* arrBestPeers keeps the object: it is held aside, and the calls name it by its
\* place among the held objects, negated.
HoldPeer(b, p) ==
    LET x == HeldName(b, p)
        Renamed(best) == [j \in DOMAIN best |-> IF best[j] = p.address THEN x ELSE best[j]]
    IN  IF x # Detached
        THEN [seeds |-> b.seeds,
              held |-> Append(b.held, HeldPeer(p)),
              calls |-> [i \in DOMAIN b.calls |->
                            IF Running(b.calls[i])
                            THEN [b.calls[i] EXCEPT !.best = Renamed(@)]
                            ELSE b.calls[i]]]
        ELSE b

\* _incomingConnection, up to its await.  The peer is added; or addPeer returns
\* undefined and the MsgReject is pushed onto the new connection (ok: the send
\* succeeds); or the new Peer takes the place of the record of its address, whose
\* Peer object stays with the handlers that hold it.
IncomingConnection(n, a, ok) ==
    /\ \/ /\ a \notin DOMAIN peers[n]
          /\ peers' = [peers EXCEPT ![n] = AddPeerLive(@, a)]
          /\ bookOrder' = [bookOrder EXCEPT ![n] = Append(@, a)]
          /\ UNCHANGED <<dup, tasks, boot>>
       \/ /\ AddPeerRefuses(peers[n], a)
          /\ dup' = [dup EXCEPT ![n] = Append(@, RefusedPeer(a, ok))]
          /\ UNCHANGED <<peers, bookOrder, tasks, boot>>
       \/ /\ AddPeerReplaces(peers[n], a)
          /\ peers' = [peers EXCEPT ![n][a] = PeerFromConnection(a)]
          /\ tasks' = [tasks EXCEPT ![n] = DetachTasks(@, a, HeldName(boot[n], peers[n][a]))]
          /\ boot' = [boot EXCEPT ![n] = HoldPeer(@, peers[n][a])]
          /\ UNCHANGED <<bookOrder, dup>>
    /\ UNCHANGED <<wit, nonce, mempool>>

\* _incomingConnection of the i-th refused connection, after the push of the
\* MsgReject: newPeer.disconnect()
ResumeIncomingConnection(n, i) ==
    /\ i \in DOMAIN dup[n]
    /\ dup[n][i].pc = "push"
    /\ dup' = [dup EXCEPT ![n][i] = ClosedPeer(@)]
    /\ UNCHANGED <<wit, nonce, peers, tasks, mempool, bookOrder, boot>>

(* ------------------------------------------------------------------ *)
(* Node: bootstrap                                                     *)
(* ------------------------------------------------------------------ *)

\* The outcomes of one round of DNS queries: the names that answer before the
\* timeout, in the order they answer; the other names fail or hang.
ResolutionOrders(dnsSeeds) ==
    LET names == {dnsSeeds[i] : i \in DOMAIN dnsSeeds}
    IN  {q \in UNION {[1..k -> names] : k \in 0..Len(dnsSeeds)} :
            \A i, j \in DOMAIN q : i # j => q[i] # q[j]}

\* A query that gives nothing unless every name answers.
RECURSIVE DnsPeersAllOrNothing(_, _)
DnsPeersAllOrNothing(dnsSeeds, resolved) ==
    IF Len(resolved) < Len(dnsSeeds) \/ resolved = <<>> THEN <<>>
    ELSE ResolveName(Head(resolved)) \o DnsPeersAllOrNothing(Tail(dnsSeeds), Tail(resolved))

\* _queryDnsRecords: arrResult, to which the addresses of each name are
\* concatenated when the name answers.
RECURSIVE DnsPeers(_, _)
DnsPeers(dnsSeeds, resolved) ==
    IF resolved = <<>> THEN <<>>
    ELSE ResolveName(Head(resolved)) \o DnsPeers(dnsSeeds, Tail(resolved))

\* The seed addresses as PeerInfo with the NODE capability.
SeedInfos(arrSeeds) == [i \in DOMAIN arrSeeds |-> PeerInfo(StrToAddress(arrSeeds[i]), {NODE})]

\* A choice of best peers that prefers the NODE peers.
FindBestPeersNodeFirst(book, order) ==
    LET arrNodes == FilterPeers(book, order, NODE)
    IN  IF Len(arrNodes) > 0 THEN arrNodes ELSE FilterPeers(book, order, WITNESS_SVC)

\* _findBestPeers: the witness peers if there is one, else the NODE peers.
FindBestPeers(book, order) ==
    LET arrWitnessNodes == FilterPeers(book, order, WITNESS_SVC)
    IN  IF Len(arrWitnessNodes) > 0 THEN arrWitnessNodes ELSE FilterPeers(book, order, NODE)

\* bootstrap() is called, whatever calls came before: the DNS seeds are queried.
BootstrapCall(n) ==
    /\ boot' = [boot EXCEPT ![n].calls = Append(@, [pc |-> "dns", best |-> <<>>])]
    /\ UNCHANGED <<wit, nonce, peers, tasks, mempool, bookOrder, dup>>

\* The best peer the i-th call of bootstrap() is working on: its address, or its
\* place among the held objects, negated.
BootPeer(n, i) == Head(boot[n].calls[i].best)

\* The Peer object behind that name.
BootObject(n, x) == IF x > 0 THEN peers[n][x] ELSE boot[n].held[0 - x]

\* bootstrap(), the head of its loop (node.js:68-70) with the best peers left:
\* where the call waits next.  A disconnected peer is dialed and the call waits
\* for the connection; a connected one is sent the MsgVersion at once (ok: the
\* send succeeds, and the call waits for the peer to load; otherwise the error
\* is thrown out of bootstrap()).
LoopPc(best, connected, ok) ==
    IF best = <<>> THEN "done"
    ELSE IF ~connected THEN "connect"
    ELSE IF ok THEN "wait" ELSE "failed"

\* The Peer object p after the head of the loop has run for it.
LoopPeer(n, p, ok) ==
    IF p.connected /\ ok THEN PushMessage(p, CreateMsgVersion(n)) ELSE p

\* _mergeSeedPeers of the i-th call of bootstrap(), from its await on
\* (node.js:112-113): the names in resolved answered in time, in that order, and
\* their addresses join this._arrSeedAddresses.  bootstrap() itself is still at
\* its await (55).
BootstrapMerge(n, i, resolved) ==
    /\ i \in DOMAIN boot[n].calls
    /\ boot[n].calls[i].pc = "dns"
    /\ ArrDnsSeeds(n) # <<>>
    /\ boot' = [boot EXCEPT ![n].seeds = @ \o DnsPeers(ArrDnsSeeds(n), resolved),
                            ![n].calls[i].pc = "merged"]
    /\ UNCHANGED <<wit, nonce, peers, tasks, mempool, bookOrder, dup>>

\* The i-th call of bootstrap() runs on from await this._mergeSeedPeers()
\* (node.js:55), which had nothing to query or has merged its answers: the
\* seeds this._arrSeedAddresses holds by now are added to the book, the best
\* peers chosen, and the loop starts with the first.
BootstrapSeeds(n, i, ok) ==
    /\ i \in DOMAIN boot[n].calls
    /\ \/ boot[n].calls[i].pc = "merged"
       \/ boot[n].calls[i].pc = "dns" /\ ArrDnsSeeds(n) = <<>>
    /\ LET arrSeeds == boot[n].seeds
           book == AddPeerInfos(peers[n], SeedInfos(arrSeeds))
           order == AddPeerOrder(peers[n], bookOrder[n], SeedInfos(arrSeeds))
           best == FindBestPeers(book, order)
       IN  /\ bookOrder' = [bookOrder EXCEPT ![n] = order]
           /\ IF best = <<>>
              THEN /\ peers' = [peers EXCEPT ![n] = book]
                   /\ boot' = [boot EXCEPT ![n].calls[i] = [pc |-> "done", best |-> best]]
              ELSE LET p == book[Head(best)]
                   IN  /\ p.connected => Len(p.sent) < MaxQueue
                       /\ peers' = [peers EXCEPT
                                ![n] = [book EXCEPT ![Head(best)] = LoopPeer(n, p, ok)]]
                       /\ boot' = [boot EXCEPT
                                ![n].calls[i] = [pc |-> LoopPc(best, p.connected, ok),
                                                 best |-> best]]
    /\ UNCHANGED <<wit, nonce, tasks, mempool, dup>>

\* The i-th call of bootstrap() becomes call, and the Peer object named x becomes p.
BootstrapStep(n, i, call, x, p) ==
    IF x > 0
    THEN /\ peers' = [peers EXCEPT ![n][x] = p]
         /\ boot' = [boot EXCEPT ![n].calls[i] = call]
    ELSE /\ boot' = [boot EXCEPT ![n].calls[i] = call, ![n].held[0 - x] = p]
         /\ UNCHANGED peers

\* bootstrap() at await this._connectToPeer(peer) (node.js:69): the connection
\* is made (ok), or it fails, which is thrown out of bootstrap().
BootstrapConnect(n, i, ok) ==
    /\ i \in DOMAIN boot[n].calls
    /\ boot[n].calls[i].pc = "connect"
    /\ ok => ~BootObject(n, BootPeer(n, i)).banned
    /\ BootstrapStep(n, i, [boot[n].calls[i] EXCEPT !.pc = IF ok THEN "push" ELSE "failed"],
                     BootPeer(n, i),
                     [BootObject(n, BootPeer(n, i)) EXCEPT !.connected = @ \/ ok])
    /\ UNCHANGED <<wit, nonce, tasks, mempool, bookOrder, dup>>

\* bootstrap() after the connection is made: await peer.pushMessage(this._createMsgVersion())
BootstrapPush(n, i, ok) ==
    /\ i \in DOMAIN boot[n].calls
    /\ boot[n].calls[i].pc = "push"
    /\ Len(BootObject(n, BootPeer(n, i)).sent) < MaxQueue
    /\ BootstrapStep(n, i, [boot[n].calls[i] EXCEPT !.pc = IF ok THEN "wait" ELSE "failed"],
                     BootPeer(n, i),
                     IF ok THEN PushMessage(BootObject(n, BootPeer(n, i)), CreateMsgVersion(n))
                     ELSE BootObject(n, BootPeer(n, i)))
    /\ UNCHANGED <<wit, nonce, tasks, mempool, bookOrder, dup>>

\* bootstrap(): await peer.loaded() ends, by loadDone or by the timeout; the loop
\* goes on with the next best peer.
BootstrapLoaded(n, i, ok) ==
    /\ i \in DOMAIN boot[n].calls
    /\ boot[n].calls[i].pc = "wait"
    /\ LET rest == Tail(boot[n].calls[i].best)
       IN  IF rest = <<>>
           THEN /\ boot' = [boot EXCEPT ![n].calls[i] = [pc |-> "done", best |-> rest]]
                /\ UNCHANGED peers
           ELSE LET p == BootObject(n, Head(rest))
                IN  /\ p.connected => Len(p.sent) < MaxQueue
                    /\ BootstrapStep(n, i, [pc |-> LoopPc(rest, p.connected, ok), best |-> rest],
                                     Head(rest), LoopPeer(n, p, ok))
    /\ UNCHANGED <<wit, nonce, tasks, mempool, bookOrder, dup>>

(* ------------------------------------------------------------------ *)
(* The environment of Spec                                             *)
(* ------------------------------------------------------------------ *)

\* The protocol versions a remote peer reports.
ProtocolVersions == {protocolVersion - 1, protocolVersion, protocolVersion + 1}

\* The nonces a node draws and a remote peer reports.
Nonces == {777, 778}

\* An addr message larger than ADDR_MAX_LENGTH
BulkPeers == [i \in 1..(ADDR_MAX_LENGTH + 1) |-> PeerInfo(10 + i, {})]

\* The peer lists a remote peer gossips.
AddrPayloads == { <<>>, <<PeerInfo(4, {})>> }

\* The messages the remote peer at address a sends.
EnvMessages(a) ==
    {MsgVersion(nn, pv, PeerInfo(a, {NODE})) : nn \in Nonces, pv \in ProtocolVersions}
    \cup {MsgVerAck, MsgGetAddr, MsgPing, DuplicateReject}
    \cup {MsgAddr(l) : l \in AddrPayloads}
    \cup {MsgTx(tx) : tx \in Txs}

\* Every send queue of the node has room for one more message.
QueuesHaveRoom(n) ==
    \A b \in RemoteAddrs \cap DOMAIN peers[n] : Len(peers[n][b].sent) < MaxQueue

\* The peer manager emits a message of the connected peer a and the listener of
\* node n runs: _incomingMessage(peer, message), up to its first await.
Dispatch(n, a, m, ok) ==
    /\ a \in DOMAIN peers[n]
    /\ peers[n][a].connected
    /\ QueuesHaveRoom(n)
    /\ Suspended(tasks[n]) < MaxSuspended
    /\ Becomes(n, IncomingMessage(n, a, m, ok))
    /\ UNCHANGED <<wit, nonce, dup>>

\* A message of the remote peer a reaches node n, while its score is below MaxScore.
Receive(n, a, m, ok) ==
    /\ a \in DOMAIN peers[n]
    /\ peers[n][a].score < MaxScore
    /\ Dispatch(n, a, m, ok)

\* The next message of the well-behaved peer a reaches node n: its version, then its verack.
HonestMessage(n, a) ==
    IF VersionUnset(peers[n][a])
    THEN MsgVersion(CHOOSE nn \in Nonces : nn # nonce[n], protocolVersion, PeerInfo(a, {NODE}))
    ELSE MsgVerAck

HonestReceive(n, a) ==
    /\ a \in DOMAIN peers[n]
    /\ ~peers[n][a].fullyConnected
    /\ Receive(n, a, HonestMessage(n, a), TRUE)

\* The version handler of the Peer object named a, suspended after pushing the
\* own version, runs on.
Resume(n, a, ok) ==
    /\ VerackTask(a) \in DOMAIN tasks[n]
    /\ a # Detached => Len(Object(Local(n), a).sent) < MaxQueue
    /\ Becomes(n, ResumeVersionMessage(n, a, ok))
    /\ UNCHANGED <<wit, nonce, dup>>

\* The promise the suspended handler t awaits has rejected: its catch runs.
ResumeCatch(n, t) ==
    /\ t \in DOMAIN tasks[n]
    /\ t.kind = "catch"
    /\ Becomes(n, CatchRuns(n, t))
    /\ UNCHANGED <<wit, nonce, dup>>

\* The transaction handler t, suspended at await this._checkTx(tx), runs on.
ResumeTx(n, t) ==
    /\ t \in DOMAIN tasks[n]
    /\ t.kind = "tx"
    /\ Becomes(n, ResumeHandleTx(n, t))
    /\ UNCHANGED <<wit, nonce, dup>>

\* The transport takes the first message of the peer's send queue.
Transmit(n, a) ==
    /\ a \in DOMAIN peers[n]
    /\ peers[n][a].sent # <<>>
    /\ peers' = [peers EXCEPT ![n][a].sent = Tail(@)]
    /\ UNCHANGED <<wit, nonce, tasks, mempool, bookOrder, dup, boot>>

\* The transport takes the first message of the send queue of a Peer object a
\* call of bootstrap() holds.
TransmitHeld(n, k) ==
    /\ k \in DOMAIN boot[n].held
    /\ boot[n].held[k].sent # <<>>
    /\ boot' = [boot EXCEPT ![n].held[k].sent = Tail(@)]
    /\ UNCHANGED <<wit, nonce, peers, tasks, mempool, bookOrder, dup>>

\* A connection from address a reaches node n, while fewer than MaxRefused
\* connections have been refused.
Connects(n, a, ok) ==
    /\ Len(dup[n]) < MaxRefused
    /\ IncomingConnection(n, a, ok)

\* A connection from an address that is not in the book of n yet
Joins(n, a) ==
    /\ a \notin DOMAIN peers[n]
    /\ IncomingConnection(n, a, TRUE)

\* A connection from an address the book of n has no live and no banned peer for
Returns(n, a) ==
    /\ ~AddPeerRefuses(peers[n], a)
    /\ IncomingConnection(n, a, TRUE)

\* The names of the Peer objects the calls of bootstrap() of n hold
HeldNames(n) == {0 - k : k \in DOMAIN boot[n].held}

\* bootstrap() of n is called, while it has been called fewer than MaxBootstraps times.
Bootstraps(n) ==
    /\ Len(boot[n].calls) < MaxBootstraps
    /\ BootstrapCall(n)

\* bootstrap() of n is called for the first time.
BootstrapsOnce(n) ==
    /\ boot[n].calls = <<>>
    /\ BootstrapCall(n)

(* ------------------------------------------------------------------ *)
(* Spec: one node and its environment                                  *)
(* ------------------------------------------------------------------ *)

\* The state after the construction of the nodes of the set: each has drawn its
\* nonce; the books are empty and nothing runs.
Constructed(set) ==
    /\ nonce \in [set -> Nonces]
    /\ peers = [n \in Nodes |-> <<>>]
    /\ bookOrder = [n \in Nodes |-> <<>>]
    /\ tasks = [n \in Nodes |-> NoTasks]
    /\ mempool = [n \in Nodes |-> {}]
    /\ dup = [n \in Nodes |-> <<>>]
    /\ boot = [n \in Nodes |-> [seeds |-> ArrSeedAddresses(n), calls |-> <<>>, held |-> <<>>]]
    /\ wit = [op |-> "idle"]

Init == Constructed({Us})

Next ==
    \/ \E a \in ArbitraryAddrs : Returns(Us, a)
    \/ \E a \in ArbitraryAddrs, ok \in BOOLEAN : \E m \in EnvMessages(a) : Receive(Us, a, m, ok)
    \/ \E a \in ArbitraryAddrs \cup HeldNames(Us) \cup {Detached}, ok \in BOOLEAN :
            Resume(Us, a, ok)
    \/ \E t \in DOMAIN tasks[Us] : ResumeTx(Us, t)
    \/ \E t \in DOMAIN tasks[Us] : ResumeCatch(Us, t)
    \/ \E a \in RemoteAddrs : Transmit(Us, a)
    \/ \E k \in DOMAIN boot[Us].held : TransmitHeld(Us, k)
    \/ BootstrapsOnce(Us)
    \/ \E i \in DOMAIN boot[Us].calls, ok \in BOOLEAN : BootstrapSeeds(Us, i, ok)
    \/ \E i \in DOMAIN boot[Us].calls, ok \in BOOLEAN : BootstrapConnect(Us, i, ok)
    \/ \E i \in DOMAIN boot[Us].calls, ok \in BOOLEAN : BootstrapPush(Us, i, ok)
    \/ \E i \in DOMAIN boot[Us].calls, ok \in BOOLEAN : BootstrapLoaded(Us, i, ok)

Spec == Init /\ [][Next]_vars

(* ------------------------------------------------------------------ *)
(* SpecConnect: one node and an address that connects again and again  *)
(* ------------------------------------------------------------------ *)

\* The messages of the peer of SpecConnect: a version that is accepted, one that
\* is too old and one with the node's own nonce, and a verack.
ConnectMessages(a) ==
    {MsgVersion(nn, pv, PeerInfo(a, {NODE})) :
        nn \in Nonces, pv \in {protocolVersion - 1, protocolVersion}}
    \cup {MsgVerAck}

NextConnect ==
    \/ \E a \in ArbitraryAddrs, ok \in BOOLEAN : Connects(Us, a, ok)
    \/ \E i \in DOMAIN dup[Us] : ResumeIncomingConnection(Us, i)
    \/ \E a \in ArbitraryAddrs : \E m \in ConnectMessages(a) : Receive(Us, a, m, TRUE)
    \/ \E a \in ArbitraryAddrs \cup {Detached}, ok \in BOOLEAN : Resume(Us, a, ok)
    \/ \E t \in DOMAIN tasks[Us] : ResumeCatch(Us, t)
    \/ \E a \in ArbitraryAddrs : Transmit(Us, a)

SpecConnect == Init /\ [][NextConnect]_vars

(* ------------------------------------------------------------------ *)
(* SpecTx: one node and two peers that send transactions            *)
(* ------------------------------------------------------------------ *)

NextTx ==
    \/ \E a \in RemoteAddrs : Joins(Us, a)
    \/ \E a \in RemoteAddrs : HonestReceive(Us, a)
    \/ \E a \in RemoteAddrs : Resume(Us, a, TRUE)
    \/ \E a \in RemoteAddrs, tx \in Txs : Receive(Us, a, MsgTx(tx), TRUE)
    \/ \E t \in DOMAIN tasks[Us] : ResumeTx(Us, t)
    \/ \E a \in RemoteAddrs : Transmit(Us, a)

SpecTx == Init /\ [][NextTx]_vars

(* ------------------------------------------------------------------ *)
(* SpecGossip: one node and a peer that gossips addresses              *)
(* ------------------------------------------------------------------ *)

\* The peer lists the gossiping peer of SpecGossip sends: the last is longer than
\* ADDR_MAX_LENGTH.
GossipPayloads == { <<>>, <<PeerInfo(4, {})>>, BulkPeers }

\* The peer lists the gossiping peer of SpecIntake sends: nothing, a new address,
\* one address twice, and the address of the sender itself, which is live.
IntakePayloads ==
    { <<>>,
      <<PeerInfo(4, {})>>,
      <<PeerInfo(4, {}), PeerInfo(4, {NODE})>>,
      <<PeerInfo(2, {WITNESS_SVC})>> }

\* The messages of the gossiping peer at address a, with the given peer lists.
GossipMessages(a, payloads) ==
    {MsgVersion(nn, pv, PeerInfo(a, {NODE})) :
        nn \in Nonces \ {nonce[Us]}, pv \in {protocolVersion, protocolVersion + 1}}
    \cup {MsgVerAck, MsgGetAddr}
    \cup {MsgAddr(l) : l \in payloads}

NextGossip ==
    \/ \E a \in ArbitraryAddrs : Joins(Us, a)
    \/ \E a \in ArbitraryAddrs, ok \in BOOLEAN :
            \E m \in GossipMessages(a, GossipPayloads) : Receive(Us, a, m, ok)
    \/ \E a \in ArbitraryAddrs, ok \in BOOLEAN : Resume(Us, a, ok)
    \/ \E t \in DOMAIN tasks[Us] : ResumeCatch(Us, t)
    \/ \E a \in ArbitraryAddrs : Transmit(Us, a)

SpecGossip == Init /\ [][NextGossip]_vars

(* ------------------------------------------------------------------ *)
(* SpecIntake: one node that bootstraps, and a peer that gossips       *)
(* ------------------------------------------------------------------ *)

NextIntake ==
    \/ \E a \in ArbitraryAddrs : Joins(Us, a)
    \/ \E a \in ArbitraryAddrs, ok \in BOOLEAN :
            \E m \in GossipMessages(a, IntakePayloads) : Receive(Us, a, m, ok)
    \/ \E a \in ArbitraryAddrs, ok \in BOOLEAN : Resume(Us, a, ok)
    \/ \E t \in DOMAIN tasks[Us] : ResumeCatch(Us, t)
    \/ \E a \in ArbitraryAddrs \cup {4} : Transmit(Us, a)
    \/ Bootstraps(Us)
    \/ \E i \in DOMAIN boot[Us].calls, ok \in BOOLEAN : BootstrapSeeds(Us, i, ok)
    \/ \E i \in DOMAIN boot[Us].calls, ok \in BOOLEAN : BootstrapConnect(Us, i, ok)
    \/ \E i \in DOMAIN boot[Us].calls, ok \in BOOLEAN : BootstrapPush(Us, i, ok)
    \/ \E i \in DOMAIN boot[Us].calls, ok \in BOOLEAN : BootstrapLoaded(Us, i, ok)

SpecIntake == Init /\ [][NextIntake]_vars

(* ------------------------------------------------------------------ *)
(* SpecHandshake: two nodes, reliable FIFO connections, fair scheduling *)
(* ------------------------------------------------------------------ *)

\* The connection the i-th call of bootstrap() of n is making reaches its best
\* peer, a node of the model: _incomingConnection runs there.
Dial(n, i) ==
    /\ i \in DOMAIN boot[n].calls
    /\ boot[n].calls[i].pc = "connect"
    /\ BootPeer(n, i) \in Nodes \ {n}
    /\ ~peers[n][BootPeer(n, i)].banned
    /\ n \notin DOMAIN peers[BootPeer(n, i)]
    /\ IncomingConnection(BootPeer(n, i), n, TRUE)

\* The connection the dialed node has accepted is made at the dialing node:
\* connect() resolves.
Dialed(n, i) ==
    /\ i \in DOMAIN boot[n].calls
    /\ boot[n].calls[i].pc = "connect"
    /\ BootPeer(n, i) \in Nodes \ {n}
    /\ n \in DOMAIN peers[BootPeer(n, i)]
    /\ BootstrapConnect(n, i, TRUE)

\* The first message of a's send queue for n crosses the connection and n handles it.
Deliver(n, a) ==
    /\ n # a
    /\ n \in DOMAIN peers[a]
    /\ peers[a][n].sent # <<>>
    /\ a \in DOMAIN peers[n]
    /\ peers[n][a].connected
    /\ LET r == IncomingMessage(n, a, Head(peers[a][n].sent), TRUE)
       IN  /\ peers' = [peers EXCEPT ![a][n].sent = Tail(@), ![n] = r.peers]
           /\ bookOrder' = [bookOrder EXCEPT ![n] = r.order]
           /\ tasks' = [tasks EXCEPT ![n] = r.tasks]
           /\ mempool' = [mempool EXCEPT ![n] = r.mempool]
    /\ UNCHANGED <<wit, nonce, dup, boot>>

\* The handler of n suspended after pushing the own version to a runs on.
Continue(n, a) ==
    /\ VerackTask(a) \in DOMAIN tasks[n]
    /\ Becomes(n, ResumeVersionMessage(n, a, TRUE))
    /\ UNCHANGED <<wit, nonce, dup>>

\* The first call of bootstrap()
FirstCall == 1

NextHandshake ==
    \/ BootstrapsOnce(Us)
    \/ BootstrapSeeds(Us, FirstCall, TRUE)
    \/ Dial(Us, FirstCall)
    \/ Dialed(Us, FirstCall)
    \/ BootstrapPush(Us, FirstCall, TRUE)
    \/ BootstrapLoaded(Us, FirstCall, TRUE)
    \/ \E n \in Nodes, a \in Nodes : Deliver(n, a)
    \/ \E n \in Nodes, a \in Nodes \cup HonestAddrs : Continue(n, a)
    \/ \E a \in HonestAddrs : Joins(Us, a)
    \/ \E a \in HonestAddrs : HonestReceive(Us, a)
    \/ \E a \in HonestAddrs : Transmit(Us, a)

\* The state after the construction of both nodes
InitHandshake == Constructed(Nodes)

SpecHandshake ==
    /\ InitHandshake
    /\ [][NextHandshake]_vars
    /\ WF_vars(BootstrapsOnce(Us))
    /\ WF_vars(BootstrapSeeds(Us, FirstCall, TRUE))
    /\ WF_vars(Dial(Us, FirstCall))
    /\ WF_vars(Dialed(Us, FirstCall))
    /\ WF_vars(BootstrapPush(Us, FirstCall, TRUE))
    /\ WF_vars(BootstrapLoaded(Us, FirstCall, TRUE))
    /\ \A n \in Nodes, a \in Nodes : WF_vars(Deliver(n, a))
    /\ \A n \in Nodes, a \in Nodes \cup HonestAddrs : WF_vars(Continue(n, a))
    /\ \A a \in HonestAddrs : WF_vars(Transmit(Us, a))

(* ------------------------------------------------------------------ *)
(* SpecBootstrap: a node with DNS seeds, and a crowd that connects     *)
(* ------------------------------------------------------------------ *)

\* The addresses of the crowd: one more than MAX_PEERS.
CrowdAddrs == {20 + i : i \in 1..(MAX_PEERS + 1)}

\* The addresses of the crowd that have connected to n
CrowdOf(n) == CrowdAddrs \cap DOMAIN peers[n]

\* The addresses the seeds of the bootstrapping node can give
SeedAddrs == {3, 4, 5}

\* The crowd connects one address after the other, in the order of the addresses.
CrowdConnects(n) ==
    \E a \in CrowdAddrs :
        /\ a = 21 + Cardinality(CrowdOf(n))
        /\ IncomingConnection(n, a, TRUE)

\* The state after the construction of the node with the DNS seeds
InitBootstrap == Constructed({Them})

NextBootstrap ==
    \/ BootstrapsOnce(Them)
    \/ \E i \in DOMAIN boot[Them].calls, resolved \in ResolutionOrders(ArrDnsSeeds(Them)) :
            BootstrapMerge(Them, i, resolved)
    \/ \E i \in DOMAIN boot[Them].calls, ok \in BOOLEAN : BootstrapSeeds(Them, i, ok)
    \/ \E i \in DOMAIN boot[Them].calls, ok \in BOOLEAN : BootstrapConnect(Them, i, ok)
    \/ \E i \in DOMAIN boot[Them].calls, ok \in BOOLEAN : BootstrapPush(Them, i, ok)
    \/ \E i \in DOMAIN boot[Them].calls, ok \in BOOLEAN : BootstrapLoaded(Them, i, ok)
    \/ \E a \in SeedAddrs : Transmit(Them, a)
    \/ CrowdConnects(Them)

SpecBootstrap == InitBootstrap /\ [][NextBootstrap]_vars

(* ------------------------------------------------------------------ *)
(* SpecDns: the node with DNS seeds, bootstrap() called more than once  *)
(* ------------------------------------------------------------------ *)

\* The calls of bootstrap() run concurrently, each up to its wait for the peers
\* of the first seed; the connections and the sends of their loops succeed.

NextDns ==
    \/ Bootstraps(Them)
    \/ \E i \in DOMAIN boot[Them].calls, resolved \in ResolutionOrders(ArrDnsSeeds(Them)) :
            BootstrapMerge(Them, i, resolved)
    \/ \E i \in DOMAIN boot[Them].calls, ok \in BOOLEAN : BootstrapSeeds(Them, i, ok)
    \/ \E i \in DOMAIN boot[Them].calls : BootstrapConnect(Them, i, TRUE)
    \/ \E i \in DOMAIN boot[Them].calls : BootstrapPush(Them, i, TRUE)
    \/ \E a \in SeedAddrs : Transmit(Them, a)

SpecDns == InitBootstrap /\ [][NextDns]_vars

(* ------------------------------------------------------------------ *)
(* SpecBan: one node and a peer that earns its ban                     *)
(* ------------------------------------------------------------------ *)

\* The messages of every type but version, verack and reject
GatedMessages(a) == {m \in EnvMessages(a) : m.type \notin {"version", "verack", "reject"}}

\* The peer connects, may shake hands, and sends rejects, pings and, before it
\* has shaken hands, messages of every other type, until the node bans it; its
\* score is not bounded by MaxScore.
NextBan ==
    \/ \E a \in ArbitraryAddrs : Joins(Us, a)
    \/ \E a \in ArbitraryAddrs, ok \in BOOLEAN : \E m \in GatedMessages(a) :
            /\ a \in DOMAIN peers[Us]
            /\ ~peers[Us][a].fullyConnected
            /\ Dispatch(Us, a, m, ok)
    \/ \E a \in ArbitraryAddrs :
            \E m \in {DuplicateReject, MsgPing, MsgVerAck,
                      MsgVersion(CHOOSE nn \in Nonces : nn # nonce[Us], protocolVersion,
                                 PeerInfo(a, {NODE}))} :
                Dispatch(Us, a, m, TRUE)
    \/ \E a \in ArbitraryAddrs : Resume(Us, a, TRUE)
    \/ \E a \in ArbitraryAddrs : Transmit(Us, a)

SpecBan == Init /\ [][NextBan]_vars

(* ------------------------------------------------------------------ *)
(* ------------------------------------------------------------------ *)
(* The witness: block assembly and the join transaction                *)
(* ------------------------------------------------------------------ *)

\* Constants.blockCreationTimeLimit, in milliseconds
blockCreationTimeLimit == 1500

\* Constants.fees.TX_FEE
TX_FEE == 100

\* The coinbase, the first transaction of every block
Coinbase == [kind |-> "coinbase"]

\* The k-th transaction the mempool hands out
FinalTx(k) == [kind |-> "tx", id |-> k]

\* this._mempool.getFinalTxns(): the candidates, in the mempool's order
GetFinalTxns(n) == [k \in 1..n |-> FinalTx(k)]

\* Math.round of the quotient num / den of two naturals
Round(num, den) == (2 * num + den) \div (2 * den)

\* The UTXOs of the witness's wallet: a transaction hash, and the coins it holds
\* at its output indexes.
WalletUtxos ==
    { [txHash |-> "h1", coins |-> (1 :> 10000 @@ 2 :> 10000 @@ 5 :> 10000)],
      [txHash |-> "h2", coins |-> (0 :> 10000)],
      [txHash |-> "h3", coins |-> (0 :> 7 @@ 3 :> 250)] }

\* The lists of UTXOs _createJoinTx is called with: one to three UTXOs, in any order
UtxoLists ==
    {q \in UNION {[1..k -> WalletUtxos] : k \in 1..3} :
        \A i, j \in DOMAIN q : i # j => q[i] # q[j]}

\* utxo.getIndexes(), in rising order
RECURSIVE SortedIndexes(_)
SortedIndexes(set) ==
    IF set = {} THEN <<>>
    ELSE LET least == CHOOSE i \in set : \A j \in set : i <= j
         IN  <<least>> \o SortedIndexes(set \ {least})

\* The inputs one UTXO gives: one per output index
InputsOf(utxo) ==
    LET idx == SortedIndexes(DOMAIN utxo.coins)
    IN  [k \in DOMAIN idx |-> [txHash |-> utxo.txHash, nTxOutput |-> idx[k]]]

\* The coins one UTXO gives, in the order of its inputs
AmountsOf(utxo) ==
    LET idx == SortedIndexes(DOMAIN utxo.coins)
    IN  [k \in DOMAIN idx |-> utxo.coins[idx[k]]]

\* The sum of a sequence of numbers
RECURSIVE SumSeq(_)
SumSeq(q) == IF q = <<>> THEN 0 ELSE Head(q) + SumSeq(Tail(q))

\* _createJoinTx: the loop over the UTXOs and their indexes collects the inputs
\* and the total amount.
RECURSIVE JoinInputs(_)
JoinInputs(arrUtxos) ==
    IF arrUtxos = <<>> THEN <<>>
    ELSE InputsOf(Head(arrUtxos)) \o JoinInputs(Tail(arrUtxos))

RECURSIVE JoinTotal(_)
JoinTotal(arrUtxos) ==
    IF arrUtxos = <<>> THEN 0
    ELSE SumSeq(AmountsOf(Head(arrUtxos))) + JoinTotal(Tail(arrUtxos))

\* A join transaction that pays the fee of its inputs only.
CreateJoinTxInputFeeOnly(arrUtxos) ==
    LET inputs == JoinInputs(arrUtxos)
        fee == Round(TX_FEE * 12, 100) * Len(inputs)
    IN  [inputs |-> inputs, outputs |-> <<[amount |-> JoinTotal(arrUtxos) - fee]>>]

\* _createJoinTx: the transaction with all the inputs and one output, which gets
\* the total less Math.round(Constants.fees.TX_FEE * 0.12) for every input and
\* for the output.
CreateJoinTx(arrUtxos) ==
    LET inputs == JoinInputs(arrUtxos)
        fee == Round(TX_FEE * 12, 100) * (Len(inputs) + 1)
    IN  [inputs |-> inputs, outputs |-> <<[amount |-> JoinTotal(arrUtxos) - fee]>>]

\* Constants.WITNESS_UTXOS_JOIN: the number of UTXOs of the wallet above which
\* the witness joins them.  Its value is set outside src/.
WITNESS_UTXOS_JOIN == 2

\* this._storage.walletListUnspent(address): what the wallet can hold
WalletLists == UtxoLists \cup {<<>>}

\* _createBlock: arrTxToProcess
TxToProcess(n, arrUtxos) ==
    IF Len(arrUtxos) > WITNESS_UTXOS_JOIN
    THEN <<[kind |-> "join", tx |-> CreateJoinTx(arrUtxos)]>> \o GetFinalTxns(n)
    ELSE GetFinalTxns(n)

\* The most candidates a mempool of the model holds
MaxCandidates == 18

\* The times, in milliseconds, the processing of one transaction can take; a
\* processing that takes no time leaves the clock where it was
TimesPerTx == {0, 100, 400, 700, 1500, 1600}

\* A budget test that counts the time the limit is reached as spent.
BudgetSpentAtLimit(elapsed) == elapsed >= blockCreationTimeLimit

\* _createBlock: Date.now() - nStartTime > Constants.blockCreationTimeLimit
BudgetSpent(elapsed) == elapsed > blockCreationTimeLimit

\* _createBlock is called: the clock starts; the transactions to process are the
\* candidates, behind the join transaction when the wallet holds more than
\* WITNESS_UTXOS_JOIN UTXOs.
CreateBlock(n, t, arrUtxos) ==
    /\ wit.op = "idle"
    /\ wit' = [op |-> "block", candidates |-> TxToProcess(n, arrUtxos), offered |-> n,
               utxos |-> arrUtxos, perTx |-> t, elapsed |-> 0, txns |-> <<>>,
               stopped |-> FALSE]
    /\ UNCHANGED <<nonce, peers, tasks, mempool, bookOrder, dup, boot>>

\* _createBlock, one turn of its loop: the next transaction is processed, which takes
\* perTx, and appended; the loop ends when the budget is spent.
ProcessTx ==
    /\ wit.op = "block"
    /\ ~wit.stopped
    /\ wit.candidates # <<>>
    /\ wit' = [wit EXCEPT !.candidates = Tail(@),
                          !.txns = Append(@, Head(wit.candidates)),
                          !.elapsed = @ + wit.perTx,
                          !.stopped = BudgetSpent(wit.elapsed + wit.perTx)]
    /\ UNCHANGED <<nonce, peers, tasks, mempool, bookOrder, dup, boot>>

\* _createBlock after its loop: the block is finished with the coinbase in front.
FinishBlock ==
    /\ wit.op = "block"
    /\ wit.stopped \/ wit.candidates = <<>>
    /\ wit' = [op |-> "built", offered |-> wit.offered, utxos |-> wit.utxos,
               perTx |-> wit.perTx, txns |-> <<Coinbase>> \o wit.txns]
    /\ UNCHANGED <<nonce, peers, tasks, mempool, bookOrder, dup, boot>>

\* _createJoinTx is called.
JoinUtxos(arrUtxos) ==
    /\ wit.op = "idle"
    /\ wit' = [op |-> "joined", utxos |-> arrUtxos, tx |-> CreateJoinTx(arrUtxos)]
    /\ UNCHANGED <<nonce, peers, tasks, mempool, bookOrder, dup, boot>>

(* ------------------------------------------------------------------ *)
(* The message codec                                                   *)
(* ------------------------------------------------------------------ *)
\* Bytes are numbers of 0..255, buffers and strings are sequences of bytes, and
\* the numbers of the model stay below 2^31.

\* Constants.network, the magic number of every frame
network == 310911748

\* The width of a signature and of a public key on the wire, in bytes
SIGNATURE_LENGTH == 65

PUBLIC_KEY_LENGTH == 33

\* Constants.messageTypes: the type tags the codec knows
KnownTags ==
    {"version", "verack", "getaddr", "addr", "reject", "block", "tx", "inv", "getdata",
     "getblocks", "ping", "pong",
     "w_handshake", "w_nextround", "w_expose", "w_block", "w_block_vote"}

\* The kinds that carry a signature and a public key: the witness's
SignedTags == {"w_handshake", "w_nextround", "w_expose", "w_block", "w_block_vote"}

\* The bytes of a type tag
TagBytes(tag) ==
    CASE tag = "version" -> <<118, 101, 114, 115, 105, 111, 110>>
      [] tag = "verack" -> <<118, 101, 114, 97, 99, 107>>
      [] tag = "getaddr" -> <<103, 101, 116, 97, 100, 100, 114>>
      [] tag = "addr" -> <<97, 100, 100, 114>>
      [] tag = "reject" -> <<114, 101, 106, 101, 99, 116>>
      [] tag = "block" -> <<98, 108, 111, 99, 107>>
      [] tag = "tx" -> <<116, 120>>
      [] tag = "inv" -> <<105, 110, 118>>
      [] tag = "getdata" -> <<103, 101, 116, 100, 97, 116, 97>>
      [] tag = "getblocks" -> <<103, 101, 116, 98, 108, 111, 99, 107, 115>>
      [] tag = "ping" -> <<112, 105, 110, 103>>
      [] tag = "pong" -> <<112, 111, 110, 103>>
      [] tag = "w_handshake" -> <<119, 95, 104, 97, 110, 100, 115, 104, 97, 107, 101>>
      [] tag = "w_nextround" -> <<119, 95, 110, 101, 120, 116, 114, 111, 117, 110, 100>>
      [] tag = "w_expose" -> <<119, 95, 101, 120, 112, 111, 115, 101>>
      [] tag = "w_block" -> <<119, 95, 98, 108, 111, 99, 107>>
      [] tag = "w_block_vote" -> <<119, 95, 98, 108, 111, 99, 107, 95, 118, 111, 116, 101>>

\* The schema of the payload of each kind
PayloadType(tag) ==
    CASE tag = "version" -> "Version"
      [] tag = "verack" -> "Empty"
      [] tag = "getaddr" -> "Empty"
      [] tag = "addr" -> "Addr"
      [] tag = "reject" -> "Reject"
      [] tag = "block" -> "Block"
      [] tag = "tx" -> "Transaction"
      [] tag = "inv" -> "Inventory"
      [] tag = "getdata" -> "Inventory"
      [] tag = "getblocks" -> "GetBlocks"
      [] tag = "ping" -> "Empty"
      [] tag = "pong" -> "Empty"
      [] tag = "w_handshake" -> "WitnessCommon"
      [] tag = "w_nextround" -> "WitnessCommon"
      [] tag = "w_expose" -> "WitnessCommon"
      [] tag = "w_block" -> "WitnessBlock"
      [] tag = "w_block_vote" -> "WitnessCommon"

\* One field of a schema: its name, its number, its type (a scalar type or the
\* name of a message) and whether it is repeated
Field(name, no, type, repeated) ==
    [name |-> name, no |-> no, type |-> type, repeated |-> repeated]

\* The fields of each message of structures.proto, by field number, and of the
\* payloads of the other kinds: what the node puts into its version, addr and
\* reject messages, the hashes of a getblocks, the empty payload, and the
\* witness's messages, which name their group
Schema(type) ==
    CASE type = "input" ->
            << Field("txHash", 1, "bytes", FALSE),
               Field("nTxOutput", 2, "uint32", FALSE) >>
      [] type = "output" ->
            << Field("amount", 1, "fixed64", FALSE),
               Field("receiverAddr", 2, "bytes", FALSE),
               Field("contractCode", 3, "string", FALSE),
               Field("addrChangeReceiver", 4, "bytes", FALSE) >>
      [] type = "TransactionPayload" ->
            << Field("ins", 1, "input", TRUE),
               Field("outs", 2, "output", TRUE),
               Field("version", 3, "uint32", FALSE),
               Field("conciliumId", 4, "uint32", FALSE) >>
      [] type = "Transaction" ->
            << Field("payload", 1, "TransactionPayload", FALSE),
               Field("claimProofs", 2, "bytes", TRUE),
               Field("txSignature", 3, "bytes", FALSE) >>
      [] type = "BlockHeader" ->
            << Field("parentHashes", 1, "bytes", TRUE),
               Field("merkleRoot", 2, "bytes", FALSE),
               Field("conciliumId", 3, "uint32", FALSE),
               Field("timestamp", 6, "uint32", FALSE),
               Field("version", 7, "uint32", FALSE),
               Field("height", 8, "uint32", FALSE) >>
      [] type = "Block" ->
            << Field("header", 1, "BlockHeader", FALSE),
               Field("txns", 2, "Transaction", TRUE),
               Field("signatures", 3, "bytes", TRUE) >>
      [] type = "InventoryVector" ->
            << Field("type", 1, "enum", FALSE),
               Field("hash", 2, "bytes", FALSE) >>
      [] type = "Inventory" ->
            << Field("invVector", 1, "InventoryVector", TRUE) >>
      [] type = "WitnessBlock" ->
            << Field("groupName", 1, "string", FALSE),
               Field("block", 2, "Block", FALSE) >>
      [] type = "WitnessCommon" ->
            << Field("groupName", 1, "string", FALSE),
               Field("content", 2, "bytes", FALSE) >>
      [] type = "Capability" ->
            << Field("service", 1, "enum", FALSE),
               Field("data", 2, "bytes", FALSE) >>
      [] type = "PeerInfo" ->
            << Field("capabilities", 1, "Capability", TRUE),
               Field("address", 2, "bytes", FALSE),
               Field("port", 3, "uint32", FALSE) >>
      [] type = "Version" ->
            << Field("protocolVersion", 1, "uint32", FALSE),
               Field("nonce", 2, "uint32", FALSE),
               Field("peerInfo", 3, "PeerInfo", FALSE),
               Field("height", 4, "uint32", FALSE) >>
      [] type = "Addr" ->
            << Field("count", 1, "uint32", FALSE),
               Field("peers", 2, "PeerInfo", TRUE) >>
      [] type = "Reject" ->
            << Field("code", 1, "uint32", FALSE),
               Field("reason", 2, "string", FALSE) >>
      [] type = "GetBlocks" ->
            << Field("arrHashes", 1, "bytes", TRUE) >>
      [] type = "Empty" -> << >>

\* The scalar types that are written as a varint, and as length-delimited bytes
VarintTypes == {"uint32", "enum"}

BytesTypes == {"bytes", "string"}

\* The wire type of a field type: varint 0, 64-bit 1, length-delimited 2
WireType(type) ==
    IF type \in VarintTypes THEN 0 ELSE IF type = "fixed64" THEN 1 ELSE 2

\* A varint: seven bits a byte, the low ones first, the high bit on all but the last
RECURSIVE Varint(_)
Varint(n) ==
    IF n < 128 THEN <<n>> ELSE <<128 + (n % 128)>> \o Varint(n \div 128)

\* The varint at pos of buf, and the position behind it
RECURSIVE ReadVarint(_, _)
ReadVarint(buf, pos) ==
    IF buf[pos] < 128
    THEN [value |-> buf[pos], next |-> pos + 1]
    ELSE LET rest == ReadVarint(buf, pos + 1)
         IN  [value |-> (buf[pos] - 128) + 128 * rest.value, next |-> rest.next]

\* A 32-bit number, little-endian
U32LE(n) ==
    << n % 256, (n \div 256) % 256, (n \div 65536) % 256, (n \div 16777216) % 256 >>

ReadU32LE(buf, pos) ==
    buf[pos] + 256 * buf[pos + 1] + 65536 * buf[pos + 2] + 16777216 * buf[pos + 3]

\* The key of a field: its number and its wire type
Key(field) == Varint(field.no * 8 + WireType(field.type))

\* proto3 leaves a scalar out of the encoding when it has its default value
IsDefault(type, v) ==
    CASE type \in VarintTypes \cup {"fixed64"} -> v = 0
      [] type \in BytesTypes -> v = <<>>
      [] OTHER -> FALSE

RECURSIVE EncodeMessage(_, _)

\* The encoding of one value of a type; a fixed64 is its low word and its high
\* word, which is zero for the numbers of the model
EncodeValue(type, v) ==
    CASE type \in VarintTypes -> Varint(v)
      [] type = "fixed64" -> U32LE(v) \o U32LE(0)
      [] type \in BytesTypes -> Varint(Len(v)) \o v
      [] OTHER -> LET b == EncodeMessage(type, v) IN Varint(Len(b)) \o b

\* A repeated field: every element with its key, in order
RECURSIVE EncodeRepeated(_, _)
EncodeRepeated(field, q) ==
    IF q = <<>> THEN <<>>
    ELSE Key(field) \o EncodeValue(field.type, Head(q)) \o EncodeRepeated(field, Tail(q))

EncodeField(field, v) ==
    IF field.repeated THEN EncodeRepeated(field, v)
    ELSE IF IsDefault(field.type, v) THEN <<>>
    ELSE Key(field) \o EncodeValue(field.type, v)

RECURSIVE EncodeFields(_, _)
EncodeFields(fields, msg) ==
    IF fields = <<>> THEN <<>>
    ELSE EncodeField(Head(fields), msg[Head(fields).name]) \o EncodeFields(Tail(fields), msg)

\* The encoding of a message: its fields by field number
EncodeMessage(type, msg) == EncodeFields(Schema(type), msg)

RECURSIVE DefaultMessage(_)

\* The value of a field that the buffer does not hold
DefaultValue(field) ==
    IF field.repeated THEN <<>>
    ELSE CASE field.type \in VarintTypes \cup {"fixed64"} -> 0
           [] field.type \in BytesTypes -> <<>>
           [] OTHER -> DefaultMessage(field.type)

DefaultMessage(type) ==
    LET fields == Schema(type)
    IN  [name \in {fields[i].name : i \in DOMAIN fields} |->
            DefaultValue(fields[CHOOSE i \in DOMAIN fields : fields[i].name = name])]

RECURSIVE DecodeMessage(_, _)

\* The value of a type and wire type at pos of buf, and the position behind it
ReadValue(type, wire, buf, pos) ==
    CASE wire = 0 -> ReadVarint(buf, pos)
      [] wire = 1 -> [value |-> ReadU32LE(buf, pos), next |-> pos + 8]
      [] OTHER ->
            LET len == ReadVarint(buf, pos)
                bytes == SubSeq(buf, len.next, len.next + len.value - 1)
            IN  [value |-> IF type \in BytesTypes THEN bytes ELSE DecodeMessage(type, bytes),
                 next |-> len.next + len.value]

\* A decoder that keeps only the last element of a repeated field.
StoreFieldLast(msg, field, v) ==
    IF field.repeated THEN [msg EXCEPT ![field.name] = <<v>>]
    ELSE [msg EXCEPT ![field.name] = v]

\* A decoded value is appended to its repeated field, or set
StoreField(msg, field, v) ==
    IF field.repeated THEN [msg EXCEPT ![field.name] = Append(@, v)]
    ELSE [msg EXCEPT ![field.name] = v]

\* The decoder's loop: key after key until the buffer ends; a field the schema
\* does not know is skipped
RECURSIVE ReadFields(_, _, _, _)
ReadFields(type, buf, pos, msg) ==
    IF pos > Len(buf) THEN msg
    ELSE LET key == ReadVarint(buf, pos)
             no == key.value \div 8
             wire == key.value % 8
             fields == Schema(type)
             known == {i \in DOMAIN fields : fields[i].no = no}
         IN  IF known = {}
             THEN ReadFields(type, buf, ReadValue("bytes", wire, buf, key.next).next, msg)
             ELSE LET field == fields[CHOOSE i \in known : TRUE]
                      r == ReadValue(field.type, wire, buf, key.next)
                  IN  ReadFields(type, buf, r.next, StoreField(msg, field, r.value))

DecodeMessage(type, buf) == ReadFields(type, buf, 1, DefaultMessage(type))

\* The checksum the model's hash is made of: of the two halves of the buffer,
\* modulo the largest prime below 2^16
RECURSIVE Checksum(_)
Checksum(buf) ==
    IF buf = <<>> THEN 1
    ELSE IF Len(buf) = 1 THEN buf[1] + 2
    ELSE LET half == Len(buf) \div 2
         IN  (Checksum(SubSeq(buf, 1, half)) * 31
                + Checksum(SubSeq(buf, half + 1, Len(buf))) * 17 + Len(buf)) % 65521

\* Crypto.createHash: the digest of a buffer
Hash(buf) == U32LE(Checksum(buf))

\* The private keys of the model
PrivateKeys == {1, 2}

\* Crypto: the public key of a private key
PublicKeyOf(k) == [i \in 1..PUBLIC_KEY_LENGTH |-> IF i = 1 THEN 2 ELSE (k * i) % 256]

\* Crypto.sign: the signature of a digest by a private key
Sign(k, digest) ==
    [i \in 1..SIGNATURE_LENGTH |->
        IF i <= Len(digest) THEN (digest[i] + k) % 256 ELSE (k + i) % 256]

\* Transaction.hash: over the payload only
TxHash(tx) == Hash(EncodeMessage("TransactionPayload", tx.payload))

\* tx.sign(0, privateKey): the claim proof of the first input
SignTx(tx, k) == [tx EXCEPT !.claimProofs = <<Sign(k, TxHash(tx))>>]

\* Block.hash: over the header only
BlockHash(block) == Hash(EncodeMessage("BlockHeader", block.header))

\* The merkle root of the transactions of a block
RECURSIVE TxHashes(_)
TxHashes(txns) == IF txns = <<>> THEN <<>> ELSE TxHash(Head(txns)) \o TxHashes(Tail(txns))

MerkleRoot(txns) == IF txns = <<>> THEN <<>> ELSE Hash(TxHashes(txns))

\* block.addTx(tx)
AddTx(block, tx) ==
    [block EXCEPT !.txns = Append(@, tx),
                  !.header.merkleRoot = MerkleRoot(Append(block.txns, tx))]

RECURSIVE AddTxs(_, _)
AddTxs(block, txns) ==
    IF txns = <<>> THEN block ELSE AddTxs(AddTx(block, Head(txns)), Tail(txns))

\* A message: its kind, its content, and the signature and public key of a
\* signed kind
Message(tag, content) ==
    [type |-> tag, content |-> content, signature |-> <<>>, publicKey |-> <<>>]

\* msg.sign(privateKey): over the hash of the payload
SignMessage(M, k) ==
    [M EXCEPT !.signature = Sign(k, Hash(EncodeMessage(PayloadType(M.type), M.content))),
              !.publicKey = PublicKeyOf(k)]

\* msg.encode(): the magic, the type tag, the length, the payload and, of a
\* signed kind, the signature and the public key
Encode(M) ==
    LET payload == EncodeMessage(PayloadType(M.type), M.content)
        tag == TagBytes(M.type)
    IN  U32LE(network) \o <<Len(tag)>> \o tag \o U32LE(Len(payload)) \o payload
            \o (IF M.type \in SignedTags THEN M.signature \o M.publicKey ELSE <<>>)

\* The decoding of a buffer: a message, or a failure
Decode(buf) ==
    IF Len(buf) < 5 \/ ReadU32LE(buf, 1) # network
    THEN [type |-> "failure", error |-> "BadMagic"]
    ELSE LET tag == SubSeq(buf, 6, 5 + buf[5])
             types == {t \in KnownTags : TagBytes(t) = tag}
         IN  IF types = {}
             THEN [type |-> "failure", error |-> "UnknownMessageType"]
             ELSE LET type == CHOOSE t \in types : TRUE
                      first == 6 + buf[5] + 4
                      len == ReadU32LE(buf, first - 4)
                      sig == first + len
                      key == sig + SIGNATURE_LENGTH
                  IN  [type |-> type,
                       content |-> DecodeMessage(PayloadType(type), SubSeq(buf, first, sig - 1)),
                       signature |-> IF type \in SignedTags
                                     THEN SubSeq(buf, sig, key - 1) ELSE <<>>,
                       publicKey |-> IF type \in SignedTags
                                     THEN SubSeq(buf, key, key + PUBLIC_KEY_LENGTH - 1) ELSE <<>>]

\* The most elements a repeated field of a message of the model holds
MaxRepeated == 2

SeqsUpTo(set, n) == UNION {[1..k -> set] : k \in 0..n}

\* createDummyTx(), unsigned or signed, with or without the owner's signature
DummyTxs ==
    LET hashes == { <<1, 2, 3, 4>>, <<255, 0, 128, 7>> }
        inputs == [txHash : hashes, nTxOutput : {0, 300}]
        outputs == [amount : {0, 10000}, receiverAddr : {<<17, 34>>},
                    contractCode : {<<>>, <<102, 40, 41>>}, addrChangeReceiver : {<<>>}]
        payloads ==
            [ins : SeqsUpTo(inputs, 1) \cup {<<[txHash |-> <<1, 2, 3, 4>>, nTxOutput |-> 1],
                                               [txHash |-> <<>>, nTxOutput |-> 70000]>>},
             outs : SeqsUpTo(outputs, 1),
             version : {0, 1}, conciliumId : {0}]
        unsigned == [payload : payloads, claimProofs : {<<>>}, txSignature : {<<>>, <<9>>}]
    IN  unsigned \cup {SignTx(tx, k) : tx \in unsigned, k \in PrivateKeys}

\* The blocks of the model: a header, and up to MaxRepeated transactions, which
\* are unsigned or signed by one of the keys
DummyBlocks ==
    LET txs == {tx \in DummyTxs : /\ Len(tx.payload.ins) = 2
                                  /\ tx.payload.outs # <<>>
                                  /\ tx.payload.outs[1].amount = 10000
                                  /\ tx.payload.outs[1].contractCode = <<>>
                                  /\ tx.payload.version = 1
                                  /\ tx.txSignature = <<>>}
        headers ==
            [parentHashes : {<<>>, <<<<1, 2, 3, 4>>, <<255, 0, 128, 7>>>>},
             merkleRoot : {<<>>}, conciliumId : {1}, timestamp : {0, 1600000000},
             version : {1}, height : {129}]
    IN  {AddTxs([header |-> h, txns |-> <<>>, signatures |-> <<>>], txns) :
            h \in headers, txns \in SeqsUpTo(txs, MaxRepeated)}

\* The well-formed messages of the model: of every kind of Constants.messageTypes;
\* among them the version of a node, transactions, inventories, the blocks, and
\* new MsgWitnessBlock({groupName}) with its block, signed
WellFormedMessages ==
    LET hashes == { <<1, 2, 3, 4>>, <<255, 0, 128, 7>> }
        vectors == [type : {11, 21}, hash : hashes]
        infos == [capabilities : {<<>>, <<[service |-> 1, data |-> <<>>]>>,
                                  <<[service |-> 1, data |-> <<>>],
                                    [service |-> 2, data |-> <<10, 11>>]>>},
                  address : {<<10, 0, 0, 2>>}, port : {0, 8223}]
    IN  {Message("tx", tx) : tx \in DummyTxs}
            \cup {Message(tag, [invVector |-> q]) :
                    tag \in {"inv", "getdata"}, q \in SeqsUpTo(vectors, MaxRepeated)}
            \cup {Message(tag, DefaultMessage("Empty")) :
                    tag \in {"verack", "getaddr", "ping", "pong"}}
            \cup {Message("version", [protocolVersion |-> pv, nonce |-> nn,
                                      peerInfo |-> info, height |-> 0]) :
                    pv \in {0, protocolVersion}, nn \in {0, 777, 99999}, info \in infos}
            \cup {Message("addr", [count |-> Len(q), peers |-> q]) :
                    q \in SeqsUpTo(infos, 1)}
            \cup {Message("reject", [code |-> c, reason |-> r]) :
                    c \in {0, 1}, r \in {<<>>, <<68, 117, 112>>}}
            \cup {Message("getblocks", [arrHashes |-> q]) : q \in SeqsUpTo(hashes, MaxRepeated)}
            \cup {Message("block", blk) : blk \in DummyBlocks}
            \cup {SignMessage(Message(tag, [groupName |-> g, content |-> c]), k) :
                    tag \in SignedTags \ {"w_block"}, g \in {<<116, 101, 115, 116>>},
                    c \in {<<>>, <<1, 2, 3, 4>>}, k \in PrivateKeys}
            \cup {SignMessage(Message("w_block", [groupName |-> g, block |-> blk]), k) :
                    g \in {<<>>, <<116, 101, 115, 116>>}, blk \in DummyBlocks, k \in PrivateKeys}

\* msg.encode() is called on a message.
EncodeMsg(M) ==
    /\ wit.op = "idle"
    /\ wit' = [op |-> "encoded", msg |-> M, buff |-> Encode(M)]
    /\ UNCHANGED <<nonce, peers, tasks, mempool, bookOrder, dup, boot>>

\* The message is restored from the buffer.
DecodeMsg ==
    /\ wit.op = "encoded"
    /\ wit' = [op |-> "decoded", msg |-> wit.msg, restored |-> Decode(wit.buff)]
    /\ UNCHANGED <<nonce, peers, tasks, mempool, bookOrder, dup, boot>>

NextWitness ==
    \/ \E n \in 0..MaxCandidates, t \in TimesPerTx, arrUtxos \in WalletLists :
            CreateBlock(n, t, arrUtxos)
    \/ ProcessTx
    \/ FinishBlock
    \/ \E arrUtxos \in UtxoLists : JoinUtxos(arrUtxos)
    \/ \E M \in WellFormedMessages : EncodeMsg(M)
    \/ DecodeMsg

SpecWitness == Init /\ [][NextWitness]_vars
(* ------------------------------------------------------------------ *)
(* Properties                                                           *)
(* ------------------------------------------------------------------ *)

\* The fields of peer a in the book of the node under test
P(a) == peers[Us][a]

\* No message is added to or taken from any send queue of the node under test.
NothingSent == \A b \in DOMAIN peers[Us] : peers'[Us][b].sent = peers[Us][b].sent

\* The book of the node under test keeps its entries, and every entry but a's is unchanged.
OnlyPeerTouched(a) ==
    /\ DOMAIN peers'[Us] = DOMAIN peers[Us]
    /\ bookOrder' = bookOrder
    /\ \A b \in DOMAIN peers[Us] \ {a} : peers'[Us][b] = peers[Us][b]

\* The effect of the handshake gate on peer a apart from its connection and its
\* ban: one point more, no message queued for any peer, the address book, the
\* mempool and the suspended handlers unchanged, and the peer keeps its version,
\* its fullyConnected flag and its loadDone flag.
GateCharged(a) ==
    /\ peers'[Us][a].score = P(a).score + 1
    /\ NothingSent
    /\ OnlyPeerTouched(a)
    /\ mempool' = mempool
    /\ tasks' = tasks
    /\ boot' = boot
    /\ peers'[Us][a].version = P(a).version
    /\ peers'[Us][a].fullyConnected = P(a).fullyConnected
    /\ peers'[Us][a].loadDone = P(a).loadDone
    /\ peers'[Us][a].peerInfo = P(a).peerInfo
    /\ peers'[Us][a].inbound = P(a).inbound

\* C1 as stated (handshake gating): when a peer that is not fully connected sends
\* a message of any type other than version, verack and reject, its misbehaviour
\* score rises by exactly 1 and nothing else changes: no message is queued for any
\* peer, the address book and the mempool are unchanged, the peer keeps its
\* version, its fullyConnected flag and its loadDone flag, and it stays connected
\* and not banned as it was.
C1_GatingAsStated ==
    [][\A a \in ArbitraryAddrs, ok \in BOOLEAN : \A m \in GatedMessages(a) :
          (/\ a \in DOMAIN peers[Us]
           /\ ~P(a).fullyConnected
           /\ Dispatch(Us, a, m, ok))
          => /\ GateCharged(a)
             /\ peers'[Us][a].connected = P(a).connected
             /\ peers'[Us][a].banned = P(a).banned
      ]_vars

\* C1 (handshake gating), with the ban: when a peer that is not fully connected
\* sends a message of any type other than version, verack and reject, its
\* misbehaviour score rises by exactly 1, no message is queued for any peer, the
\* address book and the mempool are unchanged, and the peer keeps its version, its
\* fullyConnected flag and its loadDone flag; nothing else changes unless the
\* point brings the score to BAN_PEER_SCORE, when the peer is banned and its
\* connection closed.
C1_HandshakeGating ==
    [][\A a \in ArbitraryAddrs, ok \in BOOLEAN : \A m \in GatedMessages(a) :
          (/\ a \in DOMAIN peers[Us]
           /\ ~P(a).fullyConnected
           /\ Dispatch(Us, a, m, ok))
          => /\ GateCharged(a)
             /\ IF P(a).score + 1 >= BAN_PEER_SCORE
                THEN peers'[Us][a].banned /\ ~peers'[Us][a].connected
                ELSE /\ peers'[Us][a].connected = P(a).connected
                     /\ peers'[Us][a].banned = P(a).banned
      ]_vars

\* C1's case: a peer that never sent a version or a reject has been charged for
\* every message it sent before the handshake, up to the point that banned it;
\* nothing was queued for it.
C1_Witness ==
    \E a \in ArbitraryAddrs \cap DOMAIN peers[Us] :
        /\ P(a).inbound
        /\ P(a).version = 0 /\ ~P(a).fullyConnected /\ ~P(a).loadDone
        /\ P(a).score = BAN_PEER_SCORE
        /\ P(a).banned /\ ~P(a).connected
        /\ P(a).sent = <<>>

\* The version messages that carry the node's own nonce, whatever their protocolVersion
SelfVersions(a) == {m \in EnvMessages(a) : m.type = "version" /\ m.nonce = nonce[Us]}

\* C2 (self-connection): a version message carrying the node's own nonce bans the
\* peer, whatever protocolVersion it carries: the peer goes from not banned to
\* banned, its version is not recorded, nothing is queued for it, and it does not
\* become fully connected; a banned peer stays banned and disconnected and its
\* fullyConnected flag never changes again.
C2_SelfConnection ==
    [][/\ \A a \in ArbitraryAddrs, ok \in BOOLEAN : \A m \in SelfVersions(a) :
            (/\ a \in DOMAIN peers[Us]
             /\ Receive(Us, a, m, ok))
            => /\ ~P(a).banned /\ peers'[Us][a].banned
               /\ ~peers'[Us][a].connected
               /\ peers'[Us][a].version = P(a).version
               /\ peers'[Us][a].fullyConnected = P(a).fullyConnected
               /\ peers'[Us][a].score = P(a).score
               /\ NothingSent
               /\ OnlyPeerTouched(a)
               /\ tasks' = tasks
       /\ \A a \in DOMAIN peers[Us] :
            P(a).banned
            => /\ peers'[Us][a].banned
               /\ ~peers'[Us][a].connected
               /\ peers'[Us][a].fullyConnected = P(a).fullyConnected
      ]_vars

\* C2's case: a peer is banned although it was never charged a point, its version
\* was never recorded and it is not fully connected.
C2_Witness ==
    \E a \in ArbitraryAddrs \cap DOMAIN peers[Us] :
        /\ P(a).banned /\ ~P(a).connected
        /\ P(a).score = 0
        /\ P(a).version = 0
        /\ ~P(a).fullyConnected

\* C5 (fullyConnected implies version): every peer whose fullyConnected flag is
\* set has its version set; the flag is set only while the node handles a verack
\* of that peer, and only when the version is set then.
C5_FullyConnectedHasVersion ==
    [][\A n \in Nodes : \A a \in DOMAIN peers'[n] :
          /\ peers'[n][a].fullyConnected => peers'[n][a].version # 0
          /\ (/\ a \in DOMAIN peers[n]
              /\ ~peers[n][a].fullyConnected
              /\ peers'[n][a].fullyConnected)
             => /\ peers[n][a].version # 0
                /\ \E ok \in BOOLEAN : Receive(n, a, MsgVerAck, ok)
          /\ a \notin DOMAIN peers[n] => ~peers'[n][a].fullyConnected
      ]_vars

\* C5's case: a peer of the node under test is fully connected.
C5_Witness == \E a \in DOMAIN peers[Us] : P(a).fullyConnected /\ P(a).version # 0

\* C7 (score monotonicity): the misbehaviour score of a Peer record never
\* decreases; the score of an address starts again only with the new Peer of a
\* new connection, which takes the place of a record whose connection is gone.
\* The Peer object that has left the book and that bootstrap() still has keeps
\* its score, which the handlers suspended on it only raise.
C7_ScoreMonotone ==
    [][\A n \in Nodes :
          /\ \A a \in DOMAIN peers[n] :
                /\ a \in DOMAIN peers'[n]
                /\ \/ peers'[n][a].score >= peers[n][a].score
                   \/ /\ ~peers[n][a].connected
                      /\ peers'[n][a] = PeerFromConnection(a)
          /\ \A k \in DOMAIN boot[n].held :
                /\ k \in DOMAIN boot'[n].held
                /\ boot'[n].held[k].score >= boot[n].held[k].score
          /\ \A k \in DOMAIN boot'[n].held \ DOMAIN boot[n].held :
                /\ boot'[n].held[k].address \in DOMAIN peers[n]
                /\ boot'[n].held[k].score = peers[n][boot'[n].held[k].address].score
      ]_vars

\* C7's case: a peer has been charged twice, the second time by the catch of a
\* handler that ran on after the peer's connection was closed.
C7_Witness ==
    \E a \in DOMAIN peers[Us] :
        /\ P(a).score >= 2
        /\ ~P(a).connected /\ ~P(a).banned
        /\ \A t \in DOMAIN tasks[Us] : t.peer # a

\* The version messages of another node that carry a protocolVersion below the node's
IncompatibleVersions(a) ==
    {m \in EnvMessages(a) :
        m.type = "version" /\ m.nonce # nonce[Us] /\ m.protocolVersion < protocolVersion}

\* C8 (incompatible protocol): a version message of another node with a
\* protocolVersion below the node's closes the connection and does nothing else:
\* the peer is not banned, its score and its version are unchanged, and nothing is
\* queued for it; the same holds when the peer's version was already set.
C8_IncompatibleProtocol ==
    [][\A a \in ArbitraryAddrs, ok \in BOOLEAN : \A m \in IncompatibleVersions(a) :
          (/\ a \in DOMAIN peers[Us]
           /\ Receive(Us, a, m, ok))
          => /\ ~peers'[Us][a].connected
             /\ ~peers'[Us][a].banned
             /\ peers'[Us][a].score = P(a).score
             /\ peers'[Us][a].version = P(a).version
             /\ peers'[Us][a].fullyConnected = P(a).fullyConnected
             /\ peers'[Us][a].peerInfo = P(a).peerInfo
             /\ NothingSent
             /\ OnlyPeerTouched(a)
             /\ tasks' = tasks
      ]_vars

\* C8's case, with the version already set: the peer's connection was closed, and
\* the peer is neither banned nor charged and keeps the version it had sent before.
C8_Witness ==
    \E a \in ArbitraryAddrs \cap DOMAIN peers[Us] :
        /\ ~P(a).connected /\ ~P(a).banned
        /\ P(a).score = 0
        /\ P(a).version # 0

\* The version messages of another node that carry a compatible protocolVersion
CompatibleVersions(a) ==
    {m \in EnvMessages(a) :
        m.type = "version" /\ m.nonce # nonce[Us] /\ m.protocolVersion >= protocolVersion}

\* C9 (duplicate version): a compatible version message of a peer whose version is
\* already set raises the peer's score by exactly 1, leaves the recorded version
\* and peerInfo as they were, and queues no message for it.
C9_DuplicateVersion ==
    [][\A a \in ArbitraryAddrs, ok \in BOOLEAN : \A m \in CompatibleVersions(a) :
          (/\ a \in DOMAIN peers[Us]
           /\ P(a).version # 0
           /\ Receive(Us, a, m, ok))
          => /\ peers'[Us][a].score = P(a).score + 1
             /\ peers'[Us][a].version = P(a).version
             /\ peers'[Us][a].peerInfo = P(a).peerInfo
             /\ peers'[Us][a].fullyConnected = P(a).fullyConnected
             /\ NothingSent
             /\ OnlyPeerTouched(a)
             /\ tasks' = tasks
      ]_vars

\* C9's case: a connected peer recorded the higher of the two compatible versions
\* and was charged a point afterwards, with nothing queued for it and no handler
\* of it suspended.
C9_Witness ==
    \E a \in ArbitraryAddrs \cap DOMAIN peers[Us] :
        /\ P(a).connected
        /\ P(a).version = protocolVersion + 1
        /\ P(a).peerInfo # {}
        /\ P(a).score = 1
        /\ P(a).sent = <<>>
        /\ VerackTask(a) \notin DOMAIN tasks[Us]

\* C3 (duplicate connection): a second inbound connection from the address of a
\* live peer is refused, also while an earlier refusal is still being sent. The
\* book and every field of the original peer are left as they were, the book
\* holds one entry per address, and at most one message is ever queued on a
\* refused connection; when the send of the reject succeeds, exactly one
\* MsgReject with code REJECT_DUPLICATE is sent on the new connection and the
\* new connection is closed afterwards.
C3_DuplicateConnection ==
    [][/\ \A a \in ArbitraryAddrs, ok \in BOOLEAN :
            (/\ AddPeerCollides(peers[Us], a)
             /\ IncomingConnection(Us, a, ok))
            => /\ peers' = peers
               /\ bookOrder' = bookOrder
               /\ Len(dup'[Us]) = Len(dup[Us]) + 1
               /\ SubSeq(dup'[Us], 1, Len(dup[Us])) = dup[Us]
               /\ dup'[Us][Len(dup'[Us])].address = a
               /\ ok => /\ dup'[Us][Len(dup'[Us])].sent =
                              <<MsgReject(REJECT_DUPLICATE, "Duplicate connection detected")>>
                        /\ dup'[Us][Len(dup'[Us])].connected
       /\ \A i \in DOMAIN dup[Us] :
            ResumeIncomingConnection(Us, i)
            => /\ dup[Us][i].sent = <<MsgReject(REJECT_DUPLICATE, "Duplicate connection detected")>>
               /\ dup'[Us][i].sent = dup[Us][i].sent
               /\ ~dup'[Us][i].connected
               /\ \A j \in DOMAIN dup[Us] \ {i} : dup'[Us][j] = dup[Us][j]
               /\ peers' = peers
               /\ bookOrder' = bookOrder
       /\ \A i \in DOMAIN dup'[Us] : Len(dup'[Us][i].sent) <= 1
       /\ Len(bookOrder'[Us]) = Cardinality(DOMAIN peers'[Us])
       /\ {bookOrder'[Us][i] : i \in DOMAIN bookOrder'[Us]} = DOMAIN peers'[Us]
      ]_vars

\* C3's case: two connections from the address of a live peer were refused, the
\* second while the reject of the first was being sent; both got the reject and
\* are closed, and the original peer is still connected.
C3_Witness ==
    /\ Len(dup[Us]) = 2
    /\ \A i \in DOMAIN dup[Us] :
        /\ dup[Us][i].pc = "done"
        /\ dup[Us][i].sent = <<MsgReject(REJECT_DUPLICATE, "Duplicate connection detected")>>
        /\ ~dup[Us][i].connected
        /\ dup[Us][i].address \in DOMAIN peers[Us]
        /\ P(dup[Us][i].address).connected
        /\ P(dup[Us][i].address).version # 0

\* The set of the elements of a sequence
Range(q) == {q[i] : i \in DOMAIN q}

C10_AddrCap ==
    \A a \in DOMAIN peers[Us] : \A i \in DOMAIN P(a).sent :
        P(a).sent[i].type = "addr" => Len(P(a).sent[i].peers) <= ADDR_MAX_LENGTH

\* The messages queued by n for a
Queue(n, a) == IF a \in DOMAIN peers[n] THEN peers[n][a].sent ELSE <<>>

\* Whether a message of the given type is queued by n for a before position i
QueuedBefore(n, a, type, i) == \E j \in 1..(i - 1) : Queue(n, a)[j].type = type

\* In SpecHandshake: both ends of the connection are fully connected, and the
\* dialing node has loaded the peers of the other.
HandshakeDone ==
    /\ Them \in DOMAIN peers[Us] /\ Us \in DOMAIN peers[Them]
    /\ peers[Us][Them].fullyConnected
    /\ peers[Them][Us].fullyConnected
    /\ peers[Us][Them].loadDone

\* In SpecHandshake: neither node has charged the other, the only messages between
\* them are those of the handshake, the dialed node queues its verack after its
\* version, the dialing node queues its getaddr after its verack, and the dialing
\* node sets loadDone only when the other's MsgAddr is handled.
HandshakeInOrder ==
    /\ \A n \in Nodes, a \in Nodes : a \in DOMAIN peers[n] => peers[n][a].score = 0
    /\ \A i \in DOMAIN Queue(Us, Them) :
          /\ Queue(Us, Them)[i].type \in {"version", "verack", "getaddr"}
          /\ Queue(Us, Them)[i].type = "verack"
                => peers[Us][Them].version # 0
          /\ Queue(Us, Them)[i].type = "getaddr"
                => QueuedBefore(Us, Them, "verack", i) \/ peers[Them][Us].fullyConnected
    /\ \A i \in DOMAIN Queue(Them, Us) :
          /\ Queue(Them, Us)[i].type \in {"version", "verack", "addr"}
          /\ Queue(Them, Us)[i].type = "verack"
                => QueuedBefore(Them, Us, "version", i) \/ peers[Us][Them].version # 0
          /\ Queue(Them, Us)[i].type = "addr"
                => /\ peers[Us][Them].fullyConnected
                   /\ Len(Queue(Them, Us)[i].peers) >= 1
    /\ (Them \in DOMAIN peers[Us] /\ peers[Us][Them].loadDone)
          => /\ peers[Us][Them].fullyConnected
             /\ Us \in DOMAIN peers[Us]

\* C6 (normal outbound handshake): when a node dials another of a different nonce
\* over a reliable connection, the handshake runs in order without either node charging the other,
\* and eventually and from then on both ends are fully connected and the dialing
\* node has received a MsgAddr of the other and has set loadDone.
C6_OutboundHandshake ==
    (nonce[Us] # nonce[Them]) => ([](HandshakeInOrder) /\ <>[](HandshakeDone))

\* C6's case: the handshake is over, every message has been delivered and the
\* address the other node gossiped is in the dialing node's book.
C6_Witness ==
    /\ Them \in DOMAIN peers[Us] /\ Us \in DOMAIN peers[Them]
    /\ peers[Us][Them].fullyConnected /\ peers[Them][Us].fullyConnected
    /\ peers[Us][Them].loadDone
    /\ peers[Us][Them].sent = <<>> /\ peers[Them][Us].sent = <<>>
    /\ peers[Us][Them].score = 0 /\ peers[Them][Us].score = 0
    /\ Us \in DOMAIN peers[Us]
    /\ nonce[Us] # nonce[Them]

\* C11 (failed transaction validation): a MsgTx of a fully connected peer whose
\* sender account is absent from Storage only suspends its handler; when the
\* handler runs on, the score of the Peer object it was called with rises by
\* exactly 1, the mempool is unchanged and nothing is queued for any peer; no
\* other peer changes, and the mempool of the node never holds the transaction.
C11_FailedValidation ==
    [][/\ \A a \in RemoteAddrs, tx \in Txs, ok \in BOOLEAN :
            (/\ a \in DOMAIN peers[Us]
             /\ P(a).fullyConnected
             /\ StoredAccount(TxSender(tx)).kind = "undefined"
             /\ Receive(Us, a, MsgTx(tx), ok))
            => /\ peers' = peers
               /\ mempool' = mempool
               /\ tasks'[Us] = Suspend(tasks[Us], TxTask(a, tx))
       /\ \A t \in DOMAIN tasks[Us] :
            (/\ t.kind = "tx"
             /\ StoredAccount(TxSender(t.tx)).kind = "undefined"
             /\ ResumeTx(Us, t))
            => /\ mempool' = mempool
               /\ NothingSent
               /\ tasks'[Us] = Finish(tasks[Us], t)
               /\ t.peer \in DOMAIN peers[Us]
                    => /\ peers'[Us][t.peer].score = P(t.peer).score + 1
                       /\ OnlyPeerTouched(t.peer)
               /\ t.peer \notin DOMAIN peers[Us] => peers' = peers
               /\ t.peer < 0
                    => boot'[Us].held[0 - t.peer].score = boot[Us].held[0 - t.peer].score + 1
       /\ \A tx \in Txs :
            StoredAccount(TxSender(tx)).kind = "undefined" => tx \notin mempool'[Us]
      ]_vars

\* C11's case: a fully connected peer has sent the MsgTx of a sender without
\* account and nothing else that is charged, and the handler has run on: the
\* peer has one point, no handler is suspended, the mempool is empty and
\* nothing is queued.
C11_Witness ==
    \E a \in RemoteAddrs \cap DOMAIN peers[Us] :
        /\ P(a).fullyConnected /\ P(a).connected
        /\ P(a).score = 1
        /\ tasks[Us] = NoTasks
        /\ mempool[Us] = {}
        /\ \A b \in DOMAIN peers[Us] : P(b).sent = <<>>

\* C12 (local failures never cost the peer): when the handling of a message of a
\* fully connected peer fails for a reason local to the node (a send to the peer
\* fails, the mempool raises an error), the peer's score is unchanged and the peer
\* is not banned.
C12_LocalFailureIsFree ==
    [][\A t \in DOMAIN tasks[Us] :
          (/\ t.peer \in DOMAIN peers[Us]
           /\ P(t.peer).fullyConnected
           /\ \/ t.kind = "catch" /\ t.error = "send" /\ ResumeCatch(Us, t)
              \/ t.kind = "tx" /\ ResumeTx(Us, t))
          => /\ peers'[Us][t.peer].score = P(t.peer).score
             /\ ~peers'[Us][t.peer].banned
      ]_vars

\* The addresses of the names, each name once
RECURSIVE AnswersOf(_)
AnswersOf(names) ==
    IF names = {} THEN 0
    ELSE LET name == CHOOSE x \in names : TRUE
         IN  Len(ResolveName(name)) + AnswersOf(names \ {name})

\* C13 (DNS partial tolerance): whichever of the DNS seeds answer before the
\* timeout, and in whatever order, the query of any call of bootstrap ends
\* without an error and yields exactly the addresses of the names that
\* answered, which follow the seeds the node had; the static seeds stay first.
\* bootstrap then goes on with all of those seeds: they are in the address book
\* and among the best peers, and the call starts on the first of them.
C13_DnsPartialTolerance ==
    [][\A i \in DOMAIN boot[Them].calls :
        /\ boot[Them].calls[i].pc = "dns"
            => \A resolved \in ResolutionOrders(ArrDnsSeeds(Them)) :
                    ENABLED BootstrapMerge(Them, i, resolved)
        /\ \A resolved \in ResolutionOrders(ArrDnsSeeds(Them)) :
            BootstrapMerge(Them, i, resolved)
            => LET had == boot[Them].seeds
                   got == boot'[Them].seeds
                   dns == SubSeq(got, Len(had) + 1, Len(got))
               IN  /\ Len(got) >= Len(had)
                   /\ SubSeq(got, 1, Len(had)) = had
                   /\ SubSeq(got, 1, Len(ArrSeedAddresses(Them))) = ArrSeedAddresses(Them)
                   /\ Range(dns) = UNION {Range(ResolveName(name)) : name \in Range(resolved)}
                   /\ Len(dns) = AnswersOf(Range(resolved))
                   /\ boot'[Them].calls[i].pc = "merged"
                   /\ peers' = peers
        /\ \A ok \in BOOLEAN :
            BootstrapSeeds(Them, i, ok)
            => LET got == boot[Them].seeds
                   best == boot'[Them].calls[i].best
                   after == boot'[Them].calls[i]
               IN  /\ boot[Them].calls[i].pc = "merged"
                   /\ boot'[Them].seeds = got
                   /\ \A k \in DOMAIN got : StrToAddress(got[k]) \in DOMAIN peers'[Them]
                   /\ \A k \in DOMAIN got : \E j \in DOMAIN best : best[j] = StrToAddress(got[k])
                   /\ after.pc \in {"connect", "wait", "failed"}
                   /\ after.pc = "connect" <=> ~peers'[Them][Head(best)].connected
                   /\ after.pc = "failed" => ~ok
      ]_vars

\* C13's case: of the two DNS seeds one answered in time and the other did not,
\* and bootstrap went on with the static seed and the one address of the first;
\* a second call, made meanwhile, got the answer of the other seed only.
C13_Witness ==
    /\ Len(ArrDnsSeeds(Them)) = 2
    /\ Len(boot[Them].calls) = 2
    /\ \A i \in DOMAIN boot[Them].calls :
            boot[Them].calls[i].pc \in {"connect", "push", "wait", "done"}
    /\ boot[Them].seeds = <<"10.0.0.3", "10.0.0.4", "10.0.0.5", "10.0.0.3">>
    /\ {3, 4, 5} \subseteq DOMAIN peers[Them]
    /\ Len(bookOrder[Them]) = 3

\* The live peers of n
LivePeers(n) == {a \in DOMAIN peers[n] : peers[n][a].connected}

\* C14 (connection back-pressure): a node never holds more than MAX_PEERS live
\* peers.
C14_BackPressure == \A n \in Nodes : Cardinality(LivePeers(n)) <= NMaxPeers(n)

\* The addresses of a list of peerInfo
AddressesOf(arrInfo) == {arrInfo[i].address : i \in DOMAIN arrInfo}

\* The book of the node under test after adding PeerInfo of the given addresses:
\* its keys are the old keys and the addresses, each once, and every peer that was
\* in the book keeps its connection, its handshake state and its score.
MergedInto(addrs) ==
    /\ DOMAIN peers'[Us] = DOMAIN peers[Us] \cup addrs
    /\ Len(bookOrder'[Us]) = Cardinality(DOMAIN peers'[Us])
    /\ Range(bookOrder'[Us]) = DOMAIN peers'[Us]
    /\ SubSeq(bookOrder'[Us], 1, Len(bookOrder[Us])) = bookOrder[Us]
    /\ \A b \in DOMAIN peers[Us] :
          /\ peers'[Us][b].connected = P(b).connected
          /\ peers'[Us][b].inbound = P(b).inbound
          /\ peers'[Us][b].version = P(b).version
          /\ peers'[Us][b].fullyConnected = P(b).fullyConnected
          /\ peers'[Us][b].banned = P(b).banned
          /\ peers'[Us][b].score = P(b).score

\* C15 (idempotent address merge): adding a PeerInfo whose address is already a
\* key of the book, from a MsgAddr (also twice in one MsgAddr) or from the static
\* seeds, leaves the size of the book unchanged, keeps the keys unique and does
\* not disturb a live connection of that address; an address that is new adds one
\* key.  Nothing is queued for any peer, but the MsgVersion with which
\* bootstrap(), having added the seeds, starts its loop on a connected peer.
C15_IdempotentMerge ==
    [][/\ \A a \in ArbitraryAddrs, ok \in BOOLEAN : \A l \in IntakePayloads :
            (/\ a \in DOMAIN peers[Us]
             /\ P(a).fullyConnected
             /\ Receive(Us, a, MsgAddr(l), ok))
            => /\ MergedInto(AddressesOf(l))
               /\ \A b \in DOMAIN peers[Us] : peers'[Us][b].sent = P(b).sent
               /\ AddressesOf(l) \subseteq DOMAIN peers[Us]
                    => Cardinality(DOMAIN peers'[Us]) = Cardinality(DOMAIN peers[Us])
       /\ \A i \in DOMAIN boot[Us].calls, ok \in BOOLEAN :
            BootstrapSeeds(Us, i, ok)
            => /\ MergedInto(AddressesOf(SeedInfos(ArrSeedAddresses(Us))))
               /\ \A b \in DOMAIN peers[Us] :
                    \/ peers'[Us][b].sent = P(b).sent
                    \/ /\ P(b).connected
                       /\ b = Head(boot'[Us].calls[i].best)
                       /\ peers'[Us][b].sent =
                            Append(P(b).sent,
                                   MsgVersion(nonce[Us], protocolVersion, PeerInfo(Us, {NODE})))
               /\ AddressesOf(SeedInfos(ArrSeedAddresses(Us))) \subseteq DOMAIN peers[Us]
                    => Cardinality(DOMAIN peers'[Us]) = Cardinality(DOMAIN peers[Us])
      ]_vars

\* C15's case: the address of a live, fully connected peer was named in a MsgAddr
\* (its capability is merged) and again as the seed of a second call of
\* bootstrap(), and an address that came twice in one MsgAddr is in the book
\* once; the live peer is still connected.
C15_Witness ==
    /\ 2 \in DOMAIN peers[Us] /\ 4 \in DOMAIN peers[Us]
    /\ Len(boot[Us].calls) = 2
    /\ \A i \in DOMAIN boot[Us].calls : boot[Us].calls[i].pc # "dns"
    /\ P(2).connected /\ P(2).fullyConnected
    /\ HasService(P(2), WITNESS_SVC)
    /\ HasService(P(4), NODE)
    /\ Len(bookOrder[Us]) = 2

\* C20 (address gossip intake): after a MsgAddr of a fully connected peer is
\* handled, every address of the message is a key of the book, the sender's
\* loadDone is true and the sender's score is unchanged, whatever the list holds:
\* nothing, addresses already in the book, the address of a live peer.
C20_GossipIntake ==
    [][\A a \in ArbitraryAddrs, ok \in BOOLEAN : \A l \in IntakePayloads :
          (/\ a \in DOMAIN peers[Us]
           /\ P(a).fullyConnected
           /\ Receive(Us, a, MsgAddr(l), ok))
          => /\ AddressesOf(l) \subseteq DOMAIN peers'[Us]
             /\ peers'[Us][a].loadDone
             /\ peers'[Us][a].score = P(a).score
      ]_vars

\* C20's case: a fully connected peer that was never charged has loadDone set, and
\* the address it gossiped, its own among them, is in the book.
C20_Witness ==
    \E a \in ArbitraryAddrs \cap DOMAIN peers[Us] :
        /\ P(a).fullyConnected /\ P(a).loadDone
        /\ P(a).score = 0
        /\ HasService(P(a), WITNESS_SVC)

\* C19 (per-peer FIFO replies): a message of a peer is dispatched only when the
\* handling of the peer's earlier messages has run to completion, so the replies
\* are queued in the order of the messages: no message of a peer is handled while
\* a handler of that peer is suspended before its verack is pushed.
C19_PerPeerFifo ==
    [][\A a \in ArbitraryAddrs, ok \in BOOLEAN : \A m \in EnvMessages(a) :
          Receive(Us, a, m, ok) => VerackTask(a) \notin DOMAIN tasks[Us]
      ]_vars

\* The transactions that fit the budget when each takes perTx: those processed
\* while the budget is not spent, and the one whose processing spends it
FitBudget(perTx) ==
    IF perTx = 0 THEN MaxCandidates + 1 ELSE 1 + (blockCreationTimeLimit \div perTx)

\* C17 (block assembly under a time budget): a finished block holds the coinbase
\* and then the transactions to process in their order (the join transaction of
\* a wallet with more than WITNESS_UTXOS_JOIN UTXOs, then the mempool's
\* candidates), up to and including the one whose processing spent the budget:
\* with more of them than fit, 1 + 1 + floor(blockCreationTimeLimit / t)
\* transactions, otherwise the coinbase and every one of them.
C17_BlockBudget ==
    wit.op = "built"
    => LET joined == IF Len(wit.utxos) > WITNESS_UTXOS_JOIN THEN 1 ELSE 0
       IN  /\ wit.txns[1] = Coinbase
           /\ Len(wit.txns) =
                IF joined + wit.offered > FitBudget(wit.perTx)
                THEN 1 + 1 + (blockCreationTimeLimit \div wit.perTx)
                ELSE 1 + joined + wit.offered
           /\ joined = 1 => wit.txns[2].kind = "join"
           /\ \A k \in (2 + joined)..Len(wit.txns) : wit.txns[k] = FinalTx(k - 1 - joined)

\* C17's case: of 18 candidates that take 100 ms each, behind the join
\* transaction, the block holds the coinbase, the join transaction and 15.
C17_Witness ==
    /\ wit.op = "built"
    /\ wit.perTx = 100
    /\ wit.offered = 18
    /\ Len(wit.utxos) > WITNESS_UTXOS_JOIN
    /\ Len(wit.txns) = 17
    /\ wit.txns[2].kind = "join"
    /\ wit.txns[17] = FinalTx(15)

\* The (transaction hash, output index) pairs of a list of UTXOs
PairsOf(arrUtxos) ==
    UNION {{<<arrUtxos[i].txHash, idx>> : idx \in DOMAIN arrUtxos[i].coins} : i \in DOMAIN arrUtxos}

\* The coin of a (transaction hash, output index) pair of a list of UTXOs
CoinOf(arrUtxos, pair) ==
    LET i == CHOOSE k \in DOMAIN arrUtxos : arrUtxos[k].txHash = pair[1]
    IN  arrUtxos[i].coins[pair[2]]

\* The sum of the coins of a set of pairs
RECURSIVE SumCoins(_, _)
SumCoins(arrUtxos, pairs) ==
    IF pairs = {} THEN 0
    ELSE LET pair == CHOOSE x \in pairs : TRUE
         IN  CoinOf(arrUtxos, pair) + SumCoins(arrUtxos, pairs \ {pair})

\* C18 (join transaction): the join transaction of a list of UTXOs has one input
\* per (UTXO, output index) pair of the list, exactly one output, and an output
\* amount of the sum of the coins less (number of inputs + 1) * round(TX_FEE * 0.12).
C18_JoinTx ==
    wit.op = "joined"
    => LET pairs == PairsOf(wit.utxos)
           ins == wit.tx.inputs
       IN  /\ Len(ins) = Cardinality(pairs)
           /\ {<<ins[k].txHash, ins[k].nTxOutput>> : k \in DOMAIN ins} = pairs
           /\ Len(wit.tx.outputs) = 1
           /\ wit.tx.outputs[1].amount =
                SumCoins(wit.utxos, pairs) - (Len(ins) + 1) * ((TX_FEE * 12 + 50) \div 100)

\* C18's case: two UTXOs of three coins and one coin of 10000 give four inputs
\* and one output of 4 * 10000 - 5 * 12.
C18_Witness ==
    /\ wit.op = "joined"
    /\ Len(wit.utxos) = 2
    /\ Len(wit.tx.inputs) = 4
    /\ Len(wit.tx.outputs) = 1
    /\ wit.tx.outputs[1].amount = 39940

\* C16 (round-trip codec): the message decoded from the encoding of a well-formed
\* message is that message; and of a signed MsgWitnessBlock whose block holds one
\* signed transaction, the restored message has the signer's public key and a
\* signature, its block has the same hash and one transaction, and that
\* transaction is the original.
C16_RoundTrip ==
    wit.op = "decoded"
    => /\ wit.restored = wit.msg
       /\ (wit.msg.type = "w_block" /\ Len(wit.msg.content.block.txns) = 1)
            => /\ wit.restored.type = "w_block"
               /\ wit.restored.publicKey = wit.msg.publicKey
               /\ wit.restored.signature # <<>>
               /\ BlockHash(wit.restored.content.block) = BlockHash(wit.msg.content.block)
               /\ Len(wit.restored.content.block.txns) = 1
               /\ wit.restored.content.block.txns[1] = wit.msg.content.block.txns[1]

\* C16's case: a signed MsgWitnessBlock of the group "test" whose block holds one
\* signed transaction has been encoded and decoded.
C16_Witness ==
    /\ wit.op = "decoded"
    /\ wit.msg.type = "w_block"
    /\ wit.msg.content.groupName = <<116, 101, 115, 116>>
    /\ wit.msg.publicKey = PublicKeyOf(1)
    /\ Len(wit.msg.signature) = SIGNATURE_LENGTH
    /\ Len(wit.msg.content.block.txns) = 1
    /\ wit.msg.content.block.txns[1].claimProofs # <<>>
    /\ wit.restored.type = "w_block"
    /\ wit.restored.signature # <<>>

\* The effects of a reject that C21 states whatever the score: one point, the
\* latch, no reply, and nothing else of the node touched
RejectCharged(a) ==
    /\ peers'[Us][a].score = P(a).score + 1
    /\ peers'[Us][a].loadDone
    /\ NothingSent
    /\ OnlyPeerTouched(a)
    /\ tasks' = tasks
    /\ mempool' = mempool
    /\ peers'[Us][a].version = P(a).version
    /\ peers'[Us][a].fullyConnected = P(a).fullyConnected
    /\ peers'[Us][a].peerInfo = P(a).peerInfo
    /\ peers'[Us][a].inbound = P(a).inbound

\* C21 as stated (reject handling): a MsgReject from any peer, fully connected or
\* not, raises its score by exactly 1 and sets loadDone, and has no other effect:
\* no reply, the node does not close the connection, version and fullyConnected
\* are unchanged.
C21_RejectAsStated ==
    [][\A a \in ArbitraryAddrs :
          (a \in DOMAIN peers[Us] /\ Dispatch(Us, a, DuplicateReject, TRUE))
          => /\ RejectCharged(a)
             /\ peers'[Us][a].connected = P(a).connected
             /\ peers'[Us][a].banned = P(a).banned
      ]_vars

\* C21 (reject handling), with the ban: a MsgReject from any peer, fully connected
\* or not, raises its score by exactly 1 and sets loadDone, sends no reply and
\* leaves version and fullyConnected unchanged; the node keeps the connection open
\* unless the point brings the score to BAN_PEER_SCORE, when the peer is banned
\* and its connection closed.
C21_RejectHandling ==
    [][\A a \in ArbitraryAddrs :
          (a \in DOMAIN peers[Us] /\ Dispatch(Us, a, DuplicateReject, TRUE))
          => /\ RejectCharged(a)
             /\ IF P(a).score + 1 >= BAN_PEER_SCORE
                THEN peers'[Us][a].banned /\ ~peers'[Us][a].connected
                ELSE peers'[Us][a].connected /\ ~peers'[Us][a].banned
      ]_vars

\* C21's case: a fully connected peer has sent a reject and nothing else that is
\* charged: it has one point and the latch set, and is still connected.
C21_Witness ==
    \E a \in ArbitraryAddrs \cap DOMAIN peers[Us] :
        /\ P(a).fullyConnected
        /\ P(a).score = 1
        /\ P(a).loadDone
        /\ P(a).connected
        /\ P(a).sent = <<>>

\* The peers of the book that advertise the service
Advertising(book, service) ==
    {a \in DOMAIN book : \E info \in book[a].peerInfo : service \in info.caps}

\* The MsgVersion of the node under test
OwnVersion == MsgVersion(nonce[Us], protocolVersion, PeerInfo(Us, {NODE}))

\* C23 (best-peer selection and contact): the best peers a call of bootstrap
\* chooses once the seeds are in the book are all the peers advertising WITNESS if
\* there is one, else all the peers advertising NODE; the call contacts them one
\* after the other and nobody else: it dials only the best peer it comes to, and
\* only if that peer is disconnected, it pushes its MsgVersion only to that peer
\* and only when that peer is connected, and it is done only when no best peer
\* is left.
C23_BestPeers ==
    [][\A i \in DOMAIN boot[Us].calls :
        LET call == boot[Us].calls[i]
            after == boot'[Us].calls[i]
            starts == call.pc \in {"dns", "merged"} \/ after.best # call.best
        IN
       /\ (\E ok \in BOOLEAN : BootstrapSeeds(Us, i, ok))
            => /\ Range(after.best) =
                    IF Advertising(peers'[Us], WITNESS_SVC) # {}
                    THEN Advertising(peers'[Us], WITNESS_SVC)
                    ELSE Advertising(peers'[Us], NODE)
               /\ \A j, k \in DOMAIN after.best : j # k => after.best[j] # after.best[k]
               /\ \A k \in DOMAIN boot[Us].seeds :
                    StrToAddress(boot[Us].seeds[k]) \in DOMAIN peers'[Us]
       /\ (\E ok \in BOOLEAN : \/ BootstrapSeeds(Us, i, ok)
                                \/ BootstrapConnect(Us, i, ok)
                                \/ BootstrapPush(Us, i, ok)
                                \/ BootstrapLoaded(Us, i, ok))
            => /\ \A b \in DOMAIN peers[Us] :
                    /\ \/ peers'[Us][b].sent = P(b).sent
                       \/ /\ b = Head(after.best)
                          /\ after.pc = "wait"
                          /\ peers'[Us][b].connected
                          /\ peers'[Us][b].sent = Append(P(b).sent, OwnVersion)
                    /\ peers'[Us][b].connected # P(b).connected
                        => /\ call.pc = "connect"
                           /\ b = Head(call.best)
                           /\ peers'[Us][b].connected
                           /\ peers'[Us][b].sent = P(b).sent
               /\ \A b \in DOMAIN peers'[Us] \ DOMAIN peers[Us] :
                    ~peers'[Us][b].connected /\ peers'[Us][b].sent = <<>>
               /\ (starts /\ after.pc = "connect")
                    => ~peers'[Us][Head(after.best)].connected
               /\ (after.pc = "wait" /\ (starts \/ call.pc = "push"))
                    => /\ peers'[Us][Head(after.best)].connected
                       /\ peers'[Us][Head(after.best)].sent =
                            Append(P(Head(after.best)).sent, OwnVersion)
               /\ (starts /\ after.pc = "failed")
                    => peers'[Us][Head(after.best)].connected
       /\ (call.pc \notin {"dns", "merged"} /\ after.best # call.best)
            => call.pc = "wait" /\ after.best = Tail(call.best)
       /\ (call.pc \notin {"dns", "merged"} /\ after.pc = "done") => after.best = <<>>
       /\ call.pc \in {"connect", "push", "wait"} => call.best # <<>>
      ]_vars

\* C23's case: no peer advertises WITNESS; the first call of bootstrap has dialed
\* the NODE peer of its seed, sent it the MsgVersion and is done, and a peer of
\* the book that advertises no service was not contacted.
C23_Witness ==
    /\ Len(boot[Us].calls) = 1
    /\ boot[Us].calls[1].pc = "done"
    /\ Advertising(peers[Us], WITNESS_SVC) = {}
    /\ \E a, b \in DOMAIN peers[Us] :
        /\ a \in Advertising(peers[Us], NODE)
        /\ b \notin Advertising(peers[Us], NODE)
        /\ ~P(a).inbound /\ P(a).connected
        /\ OwnVersion \in Range(P(a).sent)
        /\ ~P(b).connected /\ P(b).sent = <<>>

\* C24 (bootstrap progress): a best peer whose dial or send fails does not keep
\* bootstrap from the best peers after it: a call of bootstrap never ends while
\* best peers it has not yet worked on are left.
C24_BootstrapProgress ==
    \A n \in Nodes : \A i \in DOMAIN boot[n].calls :
        boot[n].calls[i].pc = "failed" => Tail(boot[n].calls[i].best) = <<>>

\* C25 (at most one address solicitation per connection): a verack of a peer that
\* is already fully connected changes no state and sends nothing, so that a peer
\* the node has dialed is sent no second MsgGetAddr.
C25_OneSolicitation ==
    [][\A a \in ArbitraryAddrs :
          (/\ a \in DOMAIN peers[Us]
           /\ P(a).fullyConnected
           /\ Receive(Us, a, MsgVerAck, TRUE))
          => /\ peers' = peers
             /\ tasks' = tasks
             /\ bookOrder' = bookOrder
      ]_vars

\* The node has sent its MsgVersion on the inbound connection of the peer: the
\* handler of the peer's version has pushed it and has its verack still to push.
VersionReplied(a) ==
    /\ a \in DOMAIN peers[Us]
    /\ P(a).connected /\ P(a).inbound /\ P(a).version # 0
    /\ VerackTask(a) \in DOMAIN tasks[Us]

\* C26 (at most one VERSION per connection): bootstrap pushes no MsgVersion to a
\* best peer that is connected and to which the node has already sent its
\* MsgVersion as the reply of the inbound handshake.
C26_OneVersion ==
    [][\A i \in DOMAIN boot[Us].calls, a \in RemoteAddrs :
          (/\ \/ BootstrapSeeds(Us, i, TRUE)
              \/ BootstrapPush(Us, i, TRUE)
              \/ BootstrapLoaded(Us, i, TRUE)
           /\ a \in DOMAIN peers[Us]
           /\ peers'[Us][a].sent = Append(P(a).sent, OwnVersion))
          => ~VersionReplied(a)
      ]_vars

\* C27 (a duplicate connection is closed on every path): when _incomingConnection
\* has finished with a connection that addPeer refused, that connection is
\* closed, whether the send of the MsgReject succeeded or failed; the book still
\* holds the original peer of the address, and only it.
C27_DuplicateClosed ==
    \A n \in Nodes : \A i \in DOMAIN dup[n] :
        dup[n][i].pc = "done"
        => /\ ~dup[n][i].connected
           /\ dup[n][i].address \in DOMAIN peers[n]
           /\ Cardinality({k \in DOMAIN bookOrder[n] : bookOrder[n][k] = dup[n][i].address}) = 1

====
